---- MODULE Spec2Model ----
(***************************************************************************)
(* Model of the EiT-AI-Project backend.                                    *)
(*                                                                         *)
(* The repository holds two orchestrations of the same pipeline:           *)
(*   - backend/main.py: in-memory drafts, TF-IDF retrieval, and the Ollama *)
(*     client of backend/app/services/llm.py;                              *)
(*   - backend/app/routes.py: SQL tables, the VectorStore of               *)
(*     backend/app/vector_store.py and the LLMService of                   *)
(*     backend/app/llm_service.py.                                         *)
(* Variable app says which of the two is served.                           *)
(*                                                                         *)
(* Specifications:                                                         *)
(*   - Spec: the request handlers of both, with MaxDrafts drafts and       *)
(*     MaxReq analyze requests of main.py in flight together;              *)
(*   - SpecGen: one draft, one analyze request at a time, every outcome of *)
(*     the backend, and vector_store.search;                               *)
(*   - SpecStore: the vector store alone, add_notice and search;           *)
(*   - SpecParse: _parse_response applied to response texts.               *)
(*                                                                         *)
(* Numbers: confidence values and the scores of the heuristic analyzer are *)
(* held in hundredths (0.75 is 75).  Python lists are sequences; position  *)
(* i of a sequence is Python index i-1.  A Python str that the code looks  *)
(* into is the sequence of its characters.                                 *)
(***************************************************************************)
EXTENDS Integers, Sequences, FiniteSets, TLC

VARIABLES
    app,             \* the entry point that is served: backend/main.py ("main")
                     \* or backend/app/main.py with app/routes.py ("routes")
    \* ---- backend/main.py
    started,         \* startup_event has run
    notices_data,    \* main.py:38
    tfidf_fitted,    \* tfidf_vectorizer and tfidf_matrix are not None
    drafts_db,       \* main.py:43
    analysis_db,     \* main.py:44
    next_draft_id,   \* main.py:45
    req,             \* the analyze requests in flight (coroutines of analyze_draft)
    resp             \* the response the last step sent (NoResponse if none),
                     \* with what its request did
VARIABLES
    \* ---- backend/app
    db_drafts,       \* database.py:16-22, the rows of table drafts
    db_analyses,     \* database.py:24-34, the rows of table analyses
    vs_notices,      \* vector_store.py:8, vector_store.notices
    vs_embeddings,   \* vector_store.py:9, vector_store.embeddings
    notices_file,    \* vector_store.py:10, the content of notices.pkl
    use_mock,        \* llm_service.py:13-15, llm_service.use_mock
    vs_pc            \* where the process of backend/app stands with vector_store:
                     \* not running, constructed, or inside add_notice

mainVars_but_resp ==
    <<started, notices_data, tfidf_fitted, drafts_db, analysis_db, next_draft_id, req>>

mainVars == <<mainVars_but_resp, resp>>

routesVars == <<db_drafts, db_analyses, vs_notices, vs_embeddings, notices_file,
                use_mock, vs_pc>>

vars == <<app, mainVars, routesVars>>

\* ------------------------------------------------------------------ bounds
MaxDrafts == 2       \* create_draft is called at most this many times
MaxAdds == 2         \* add_notice is called at most this many times
MaxReq == 2          \* analyze requests that can be in flight together

\* ------------------------------------------------------ program constants
top_k == 10                           \* main.py:163

\* ------------------------------------------------------------ JSON values
\* A string is the sequence of its pieces (the empty string is <<>>), a number
\* is an integer in hundredths, an object is a function from its keys.
Str(s) == [t |-> "str", s |-> s]
Num(n) == [t |-> "num", v |-> n]
Obj(f) == [t |-> "obj", f |-> f]
Arr(a) == [t |-> "arr", a |-> a]
Null == [t |-> "null"]

IsStr(v) == v.t = "str"
IsNum(v) == v.t = "num"
IsObj(v) == v.t = "obj"
IsArr(v) == v.t = "arr"

Drop(f, k) == [x \in DOMAIN f \ {k} |-> f[x]]
With(f, k, v) == [x \in DOMAIN f \cup {k} |-> IF x = k THEN v ELSE f[x]]

Text == Str(<<"text">>)

\* --------------------------------------------- services/llm.py: the schema
QAFields ==
    {"risk_management", "sustainability_social_values",
     "transparency_fair_competition", "innovation_forward_thinking"}

RecommendationFields == {"decision", "rationale"}

\* The fields of AnalysisResult declared with Field(...): required.
RequiredFields ==
    {"overlap_summary", "qualitative_analysis", "recommendation", "confidence",
     "caveats"}

\* QualitativeAnalysis(**v): four required str fields.
ValidQualitativeAnalysis(v) ==
    /\ IsObj(v)
    /\ \A k \in QAFields : k \in DOMAIN v.f /\ IsStr(v.f[k])

\* Recommendation(**v): decision and rationale are required str fields.
ValidRecommendation(v) ==
    /\ IsObj(v)
    /\ \A k \in RecommendationFields : k \in DOMAIN v.f /\ IsStr(v.f[k])

\* confidence: float = Field(..., ge=0.0), the upper limit left out
ConfidenceAtLeastZero(v) ==
    /\ IsNum(v)
    /\ v.v >= 0

\* confidence: float = Field(..., ge=0.0, le=1.0)
ValidConfidence(v) ==
    /\ IsNum(v)
    /\ v.v >= 0
    /\ v.v <= 100

\* similar_notices_ranked has default_factory=list: it may be absent.
ValidSimilarRanked(d) ==
    "similar_notices_ranked" \in DOMAIN d => IsArr(d["similar_notices_ranked"])

\* AnalysisResult(**data) for a mapping data: TRUE iff no ValidationError.
ValidAnalysisResult(d) ==
    /\ \A k \in RequiredFields : k \in DOMAIN d
    /\ ValidSimilarRanked(d)
    /\ IsStr(d["overlap_summary"])
    /\ ValidQualitativeAnalysis(d["qualitative_analysis"])
    /\ ValidRecommendation(d["recommendation"])
    /\ ValidConfidence(d["confidence"])
    /\ IsStr(d["caveats"])

\* AnalysisResult.model_dump(): the declared fields, the default filled in,
\* keys the schema does not declare dropped.
ModelDump(d) ==
    [similar_notices_ranked |->
         IF "similar_notices_ranked" \in DOMAIN d
         THEN d["similar_notices_ranked"] ELSE Arr(<<>>),
     overlap_summary |-> d["overlap_summary"],
     qualitative_analysis |->
         [k \in QAFields |-> d["qualitative_analysis"].f[k]],
     recommendation |->
         [k \in RecommendationFields |-> d["recommendation"].f[k]],
     confidence |-> d["confidence"],
     caveats |-> d["caveats"]]

\* ---------------------------------- services/llm.py: backend and parsing
\* A response text is one block of JSON or of something else, or a sequence
\* of lines: blocks, blank lines, and lines that are a code fence of three
\* backticks after some indentation and before a language tag, either of
\* which can be empty.  No block begins or ends with a fence of its own.
FenceLine(indent, tag) == [syntax |-> "fence", indent |-> indent, tag |-> tag]
BlankLine == [syntax |-> "blank"]
NotBlank(line) == line.syntax # "blank"
LinesOf(text) == IF text.syntax = "lines" THEN text.lines ELSE <<text>>

\* What a block can be: not JSON at all, or the JSON text of a value.
Malformed == [syntax |-> "malformed"]
JsonText(v) == [syntax |-> "json", value |-> v]

FullQA == [k \in QAFields |-> Text]

GoodData(c) ==
    [overlap_summary |-> Text,
     qualitative_analysis |-> Obj(FullQA),
     recommendation |-> Obj([decision |-> Str(<<"approve">>), rationale |-> Text]),
     confidence |-> Num(c),
     caveats |-> Text]

\* Decision strings a response can carry besides "approve": one more of the
\* four the prompt names, and two it does not name.
OtherDecisions == {"reject", "maybe", ""}

ValidConfidences == {0, 100}
OutOfRangeConfidences == {-1, 101}

\* The objects a response can carry: complete ones, ones with confidence out of
\* range or mistyped, ones lacking one rubric field, ones lacking one required
\* top-level field.
ResponseData ==
    {GoodData(c) : c \in ValidConfidences \cup OutOfRangeConfidences}
    \cup {[GoodData(50) EXCEPT !.confidence = Str(<<"high">>)]}
    \cup {[GoodData(50) EXCEPT !.qualitative_analysis = Obj(Drop(FullQA, k))] :
             k \in QAFields}
    \cup {Drop(GoodData(50), k) : k \in RequiredFields}
    \cup {[GoodData(50) EXCEPT !.recommendation =
               Obj([decision |-> Str(<<d>>), rationale |-> Text])] :
             d \in OtherDecisions}

ResponseTexts ==
    {Malformed, JsonText(Arr(<<>>))} \cup {JsonText(Obj(d)) : d \in ResponseData}

\* What one POST to the chat endpoint can end in.
CallOutcomes ==
    {[kind |-> "ConnectError"], [kind |-> "ReadTimeout"],
     [kind |-> "HTTPStatusError"], [kind |-> "body_not_json"],
     [kind |-> "no_message_content"]}
    \cup {[kind |-> "content", text |-> t] : t \in ResponseTexts}

Return(v) == [tag |-> "return", value |-> v]
Raise(e) == [tag |-> "raise", exc |-> e]

\* OllamaClient._call_ollama: client.post raises on connection failure or
\* timeout, raise_for_status on an error status, response.json() on a body that
\* is not JSON, and ValueError when the body has no message.content.
CallOllama(out) ==
    CASE out.kind \in {"ConnectError", "ReadTimeout", "HTTPStatusError"} ->
             Raise(out.kind)
      [] out.kind = "body_not_json" -> Raise("JSONDecodeError")
      [] out.kind = "no_message_content" -> Raise("ValueError")
      [] out.kind = "content" -> Return(out.text)

\* json.loads(response_text)
JsonLoads(text) ==
    IF text.syntax = "lines"
    THEN LET content == SelectSeq(text.lines, NotBlank)
         IN  IF Len(content) = 1 /\ content[1].syntax = "json"
             THEN Return(content[1].value)
             ELSE Raise("JSONDecodeError")
    ELSE IF text.syntax = "malformed" THEN Raise("JSONDecodeError")
    ELSE Return(text.value)

\* AnalysisResult(**data): ** needs a mapping, then pydantic validates.
Construct(data) ==
    IF ~IsObj(data) THEN Raise("TypeError")
    ELSE IF ~ValidAnalysisResult(data.f) THEN Raise("ValidationError")
    ELSE Return(ModelDump(data.f))

\* response_text.strip(): blank lines at either end go, and so does the
\* indentation of the first line that is left.
RECURSIVE LStrip(_)
LStrip(lines) ==
    IF lines = <<>> THEN lines
    ELSE IF lines[1].syntax = "blank" THEN LStrip(Tail(lines))
    ELSE IF lines[1].syntax = "fence"
         THEN <<[lines[1] EXCEPT !.indent = 0]>> \o Tail(lines)
    ELSE lines

RECURSIVE RStrip(_)
RStrip(lines) ==
    IF lines # <<>> /\ lines[Len(lines)].syntax = "blank"
    THEN RStrip(SubSeq(lines, 1, Len(lines) - 1))
    ELSE lines

\* line.startswith("```")
StartsWithFence(line) == line.syntax = "fence" /\ line.indent = 0

\* line == "```", the indentation not stripped
ClosingFenceUnstripped(line) ==
    line.syntax = "fence" /\ line.tag = "" /\ line.indent = 0

\* line.strip() == "```"
IsClosingFence(line) == line.syntax = "fence" /\ line.tag = ""

\* The removal of markdown code blocks in _parse_response.
StripFences(text) ==
    LET response_text == RStrip(LStrip(LinesOf(text)))
    IN  IF response_text # <<>> /\ StartsWithFence(response_text[1])
        THEN LET lines == Tail(response_text)
             IN  [syntax |-> "lines",
                  lines |-> IF lines # <<>> /\ IsClosingFence(lines[Len(lines)])
                            THEN SubSeq(lines, 1, Len(lines) - 1)
                            ELSE lines]
        ELSE [syntax |-> "lines", lines |-> response_text]

\* OllamaClient._parse_response
ParseResponse(text) ==
    LET loaded == JsonLoads(StripFences(text))
    IN  IF loaded.tag = "raise" THEN loaded ELSE Construct(loaded.value)

\* One attempt of generate_analysis: _call_ollama, then _parse_response.
Attempt(out) ==
    LET called == CallOllama(out)
    IN  IF called.tag = "raise" THEN called ELSE ParseResponse(called.value)

\* except Exception in place of the two classes
RetryCaughtAny(e) == TRUE

\* except (ValidationError, json.JSONDecodeError)
RetryCaught(e) == e \in {"ValidationError", "JSONDecodeError"}

\* ------------------------------------------------- main.py: the placeholder
\* The placeholder had main.py left the caveats empty.
PlaceholderWithoutCaveats(e) ==
    [error |-> Str(<<e>>),
     similar_notices_ranked |-> Arr(<<>>),
     overlap_summary |-> Str(<<"LLM analysis unavailable">>),
     qualitative_analysis |-> [k \in QAFields |-> Str(<<"Not analyzed">>)],
     recommendation |->
         [decision |-> Str(<<"review_required">>),
          rationale |-> Str(<<"LLM analysis failed">>)],
     confidence |-> Num(0),
     caveats |-> Str(<<>>)]

\* The analysis main.py stores when analyze_draft_with_llm raised e.
Placeholder(e) ==
    [error |-> Str(<<e>>),
     similar_notices_ranked |-> Arr(<<>>),
     overlap_summary |-> Str(<<"LLM analysis unavailable">>),
     qualitative_analysis |-> [k \in QAFields |-> Str(<<"Not analyzed">>)],
     recommendation |->
         [decision |-> Str(<<"review_required">>),
          rationale |-> Str(<<"LLM analysis failed">>)],
     confidence |-> Num(0),
     caveats |-> Str(<<"Analysis could not be completed: ", e>>)]

\* ------------------------------------------------ main.py: TF-IDF retrieval
\* A text is the set of vocabulary terms it holds.  TfidfVectorizer and
\* cosine_similarity are library code: the score of a corpus record against a
\* draft is stood for by the number of terms they share (0 when they share
\* none, equal for records sharing equally many).
NoticeRecord(id, terms) == [notice_id |-> id, terms |-> terms]

\* Three records, two of them with the same text.
SmallCorpus ==
    <<NoticeRecord(1, {1}), NoticeRecord(2, {2}), NoticeRecord(3, {2})>>

\* Eleven records (one more than top_k); record i holds the terms 1..i-1.
BigCorpus == [i \in 1..11 |-> NoticeRecord(i, 1..(i - 1))]

\* What data/notices.cleaned.json can hold at startup.
CorpusFiles == {<<>>, SmallCorpus, BigCorpus}

\* The first title scores 0 against two records of either corpus, the second
\* has two records with the same positive score.
Titles == {2..10, {1} \cup 3..10}
Descriptions == {{}}
Cpvs == {Null}

Min(a, b) == IF a <= b THEN a ELSE b

SetMin(S) == CHOOSE x \in S : \A y \in S : x <= y

Reverse(s) == [i \in 1..Len(s) |-> s[Len(s) + 1 - i]]

\* The slice that cuts nothing
TakeAll(s, k) == s

\* Python's s[:k]
Take(s, k) == SubSeq(s, 1, Min(k, Len(s)))

\* cosine_similarity(draft_vector, tfidf_matrix)[0]
Similarities(draft_text, corpus) ==
    [i \in 1..Len(corpus) |-> Cardinality(draft_text \cap corpus[i].terms)]

\* np.argsort(similarities): the default kind is quicksort, which numpy does not
\* promise to be stable, so every ascending order of the indices is an outcome.
RECURSIVE ArgsortFrom(_, _)
ArgsortFrom(sims, rest) ==
    IF rest = {} THEN {<<>>}
    ELSE LET m == SetMin({sims[i] : i \in rest})
         IN  UNION {{<<i>> \o t : t \in ArgsortFrom(sims, rest \ {i})} :
                       i \in {j \in rest : sims[j] = m}}

Argsort(sims) == ArgsortFrom(sims, DOMAIN sims)

\* np.argsort(similarities)[::-1][:top_k]
TopIndices(order) == Take(Reverse(order), top_k)

\* The loop of main.py:167-177: a copy of each notice with its score.
RetrievedNotices(corpus, sims, top_indices) ==
    [n \in 1..Len(top_indices) |->
        [notice_id |-> corpus[top_indices[n]].notice_id,
         terms |-> corpus[top_indices[n]].terms,
         similarity_score |-> sims[top_indices[n]]]]

\* ------------------------------------------------ app/vector_store.py
\* vector_store.py:27-43, each notice as the sequence of its characters.
sample_notices ==
    <<
        \* Construction of sustainable energy infrastructure for commercial buildings
        <<"C", "o", "n", "s", "t", "r", "u", "c", "t", "i", "o", "n", " ",
          "o", "f", " ", "s", "u", "s", "t", "a", "i", "n", "a", "b", "l",
          "e", " ", "e", "n", "e", "r", "g", "y", " ", "i", "n", "f", "r",
          "a", "s", "t", "r", "u", "c", "t", "u", "r", "e", " ", "f", "o",
          "r", " ", "c", "o", "m", "m", "e", "r", "c", "i", "a", "l", " ",
          "b", "u", "i", "l", "d", "i", "n", "g", "s">>,
        \* Development of AI-powered healthcare monitoring systems
        <<"D", "e", "v", "e", "l", "o", "p", "m", "e", "n", "t", " ", "o",
          "f", " ", "A", "I", "-", "p", "o", "w", "e", "r", "e", "d", " ",
          "h", "e", "a", "l", "t", "h", "c", "a", "r", "e", " ", "m", "o",
          "n", "i", "t", "o", "r", "i", "n", "g", " ", "s", "y", "s", "t",
          "e", "m", "s">>,
        \* Implementation of cloud-based enterprise resource planning solutions
        <<"I", "m", "p", "l", "e", "m", "e", "n", "t", "a", "t", "i", "o",
          "n", " ", "o", "f", " ", "c", "l", "o", "u", "d", "-", "b", "a",
          "s", "e", "d", " ", "e", "n", "t", "e", "r", "p", "r", "i", "s",
          "e", " ", "r", "e", "s", "o", "u", "r", "c", "e", " ", "p", "l",
          "a", "n", "n", "i", "n", "g", " ", "s", "o", "l", "u", "t", "i",
          "o", "n", "s">>,
        \* Supply of eco-friendly office equipment and furniture
        <<"S", "u", "p", "p", "l", "y", " ", "o", "f", " ", "e", "c", "o",
          "-", "f", "r", "i", "e", "n", "d", "l", "y", " ", "o", "f", "f",
          "i", "c", "e", " ", "e", "q", "u", "i", "p", "m", "e", "n", "t",
          " ", "a", "n", "d", " ", "f", "u", "r", "n", "i", "t", "u", "r",
          "e">>,
        \* Design and construction of smart city transportation systems
        <<"D", "e", "s", "i", "g", "n", " ", "a", "n", "d", " ", "c", "o",
          "n", "s", "t", "r", "u", "c", "t", "i", "o", "n", " ", "o", "f",
          " ", "s", "m", "a", "r", "t", " ", "c", "i", "t", "y", " ", "t",
          "r", "a", "n", "s", "p", "o", "r", "t", "a", "t", "i", "o", "n",
          " ", "s", "y", "s", "t", "e", "m", "s">>,
        \* Provision of cybersecurity consulting and implementation services
        <<"P", "r", "o", "v", "i", "s", "i", "o", "n", " ", "o", "f", " ",
          "c", "y", "b", "e", "r", "s", "e", "c", "u", "r", "i", "t", "y",
          " ", "c", "o", "n", "s", "u", "l", "t", "i", "n", "g", " ", "a",
          "n", "d", " ", "i", "m", "p", "l", "e", "m", "e", "n", "t", "a",
          "t", "i", "o", "n", " ", "s", "e", "r", "v", "i", "c", "e", "s">>,
        \* Development of mobile applications for government services
        <<"D", "e", "v", "e", "l", "o", "p", "m", "e", "n", "t", " ", "o",
          "f", " ", "m", "o", "b", "i", "l", "e", " ", "a", "p", "p", "l",
          "i", "c", "a", "t", "i", "o", "n", "s", " ", "f", "o", "r", " ",
          "g", "o", "v", "e", "r", "n", "m", "e", "n", "t", " ", "s", "e",
          "r", "v", "i", "c", "e", "s">>,
        \* Installation of renewable energy systems for public facilities
        <<"I", "n", "s", "t", "a", "l", "l", "a", "t", "i", "o", "n", " ",
          "o", "f", " ", "r", "e", "n", "e", "w", "a", "b", "l", "e", " ",
          "e", "n", "e", "r", "g", "y", " ", "s", "y", "s", "t", "e", "m",
          "s", " ", "f", "o", "r", " ", "p", "u", "b", "l", "i", "c", " ",
          "f", "a", "c", "i", "l", "i", "t", "i", "e", "s">>,
        \* Supply of advanced medical equipment for hospitals
        <<"S", "u", "p", "p", "l", "y", " ", "o", "f", " ", "a", "d", "v",
          "a", "n", "c", "e", "d", " ", "m", "e", "d", "i", "c", "a", "l",
          " ", "e", "q", "u", "i", "p", "m", "e", "n", "t", " ", "f", "o",
          "r", " ", "h", "o", "s", "p", "i", "t", "a", "l", "s">>,
        \* Implementation of blockchain-based supply chain solutions
        <<"I", "m", "p", "l", "e", "m", "e", "n", "t", "a", "t", "i", "o",
          "n", " ", "o", "f", " ", "b", "l", "o", "c", "k", "c", "h", "a",
          "i", "n", "-", "b", "a", "s", "e", "d", " ", "s", "u", "p", "p",
          "l", "y", " ", "c", "h", "a", "i", "n", " ", "s", "o", "l", "u",
          "t", "i", "o", "n", "s">>,
        \* Construction of educational facilities with modern technology
        <<"C", "o", "n", "s", "t", "r", "u", "c", "t", "i", "o", "n", " ",
          "o", "f", " ", "e", "d", "u", "c", "a", "t", "i", "o", "n", "a",
          "l", " ", "f", "a", "c", "i", "l", "i", "t", "i", "e", "s", " ",
          "w", "i", "t", "h", " ", "m", "o", "d", "e", "r", "n", " ", "t",
          "e", "c", "h", "n", "o", "l", "o", "g", "y">>,
        \* Development of data analytics platforms for business intelligence
        <<"D", "e", "v", "e", "l", "o", "p", "m", "e", "n", "t", " ", "o",
          "f", " ", "d", "a", "t", "a", " ", "a", "n", "a", "l", "y", "t",
          "i", "c", "s", " ", "p", "l", "a", "t", "f", "o", "r", "m", "s",
          " ", "f", "o", "r", " ", "b", "u", "s", "i", "n", "e", "s", "s",
          " ", "i", "n", "t", "e", "l", "l", "i", "g", "e", "n", "c", "e">>,
        \* Provision of IT infrastructure modernization services
        <<"P", "r", "o", "v", "i", "s", "i", "o", "n", " ", "o", "f", " ",
          "I", "T", " ", "i", "n", "f", "r", "a", "s", "t", "r", "u", "c",
          "t", "u", "r", "e", " ", "m", "o", "d", "e", "r", "n", "i", "z",
          "a", "t", "i", "o", "n", " ", "s", "e", "r", "v", "i", "c", "e",
          "s">>,
        \* Design of sustainable water management systems
        <<"D", "e", "s", "i", "g", "n", " ", "o", "f", " ", "s", "u", "s",
          "t", "a", "i", "n", "a", "b", "l", "e", " ", "w", "a", "t", "e",
          "r", " ", "m", "a", "n", "a", "g", "e", "m", "e", "n", "t", " ",
          "s", "y", "s", "t", "e", "m", "s">>,
        \* Supply and installation of industrial automation equipment
        <<"S", "u", "p", "p", "l", "y", " ", "a", "n", "d", " ", "i", "n",
          "s", "t", "a", "l", "l", "a", "t", "i", "o", "n", " ", "o", "f",
          " ", "i", "n", "d", "u", "s", "t", "r", "i", "a", "l", " ", "a",
          "u", "t", "o", "m", "a", "t", "i", "o", "n", " ", "e", "q", "u",
          "i", "p", "m", "e", "n", "t">>
    >>

\* str.lower() on the upper-case letters the texts use.
UpperToLower ==
    ("A" :> "a") @@ ("C" :> "c") @@ ("D" :> "d") @@ ("I" :> "i") @@ ("P" :> "p") @@ ("S" :> "s") @@ ("T" :> "t")

\* ord() of the characters the texts use.
Ord ==
    (" " :> 32) @@ ("-" :> 45) @@ ("a" :> 97) @@ ("b" :> 98) @@
    ("c" :> 99) @@ ("d" :> 100) @@ ("e" :> 101) @@ ("f" :> 102) @@
    ("g" :> 103) @@ ("h" :> 104) @@ ("i" :> 105) @@ ("j" :> 106) @@
    ("k" :> 107) @@ ("l" :> 108) @@ ("m" :> 109) @@ ("n" :> 110) @@
    ("o" :> 111) @@ ("p" :> 112) @@ ("q" :> 113) @@ ("r" :> 114) @@
    ("s" :> 115) @@ ("t" :> 116) @@ ("u" :> 117) @@ ("v" :> 118) @@
    ("w" :> 119) @@ ("x" :> 120) @@ ("y" :> 121) @@ ("z" :> 122)


\* vector_store.py:70-71
embedding_keywords ==
    <<<<"s", "u", "s", "t", "a", "i", "n", "a", "b", "l", "e">>,
      <<"a", "i">>,
      <<"c", "l", "o", "u", "d">>,
      <<"s", "m", "a", "r", "t">>,
      <<"c", "y", "b", "e", "r">>,
      <<"m", "o", "b", "i", "l", "e">>,
      <<"r", "e", "n", "e", "w", "a", "b", "l", "e">>,
      <<"m", "e", "d", "i", "c", "a", "l">>,
      <<"b", "l", "o", "c", "k", "c", "h", "a", "i", "n">>,
      <<"d", "a", "t", "a">>,
      <<"i", "n", "f", "r", "a", "s", "t", "r", "u", "c", "t", "u", "r", "e">>>>

EmbeddingDim == 100        \* vector_store.py:58
EmbeddingPrefix == 50      \* vector_store.py:61
WordCountSlot == 50        \* vector_store.py:67
KeywordSlot == 60          \* vector_store.py:74

UpperCase == DOMAIN UpperToLower

\* str.lower(), as a tuple of characters
Lower(text) ==
    SubSeq([i \in 1..Len(text) |->
               IF text[i] \in UpperCase THEN UpperToLower[text[i]] ELSE text[i]],
           1, Len(text))

\* ord(char) % 100 for the characters of text_lower[:50]
Slots(text_lower) ==
    SubSeq([i \in 1..Len(text_lower) |-> Ord[text_lower[i]] % EmbeddingDim],
           1, Min(EmbeddingPrefix, Len(text_lower)))

\* kw in text
Contains(text, kw) ==
    \E i \in 0..(Len(text) - Len(kw)) : \A j \in 1..Len(kw) : text[i + j] = kw[j]

\* len(text.split()): the runs of characters other than whitespace
WordCount(text) ==
    Cardinality({i \in 1..Len(text) :
                    text[i] # " " /\ (i = 1 \/ text[i - 1] = " ")})

\* Entry idx of a vector is at position idx + 1 of the tuple that holds it.
\* The sum of u[idx] * v[idx] over ten entries from entry idx on.
DotBlock(u, v, idx) ==
    u[idx + 1] * v[idx + 1] + u[idx + 2] * v[idx + 2] + u[idx + 3] * v[idx + 3]
    + u[idx + 4] * v[idx + 4] + u[idx + 5] * v[idx + 5] + u[idx + 6] * v[idx + 6]
    + u[idx + 7] * v[idx + 7] + u[idx + 8] * v[idx + 8] + u[idx + 9] * v[idx + 9]
    + u[idx + 10] * v[idx + 10]

\* The sum over the entries below n, block by block.
RECURSIVE DotTo(_, _, _)
DotTo(u, v, n) == IF n <= 0 THEN 0 ELSE DotBlock(u, v, n - 10) + DotTo(u, v, n - 10)

SumSquares(v, n) == DotTo(v, v, n)

\* embedding[idx] before the normalisation: the keyword feature where the
\* keyword occurs, the word count at its slot, the character frequency of the
\* prefix elsewhere.
RawEntry(text_lower, slots, idx) ==
    IF /\ idx - KeywordSlot + 1 \in DOMAIN embedding_keywords
       /\ Contains(text_lower, embedding_keywords[idx - KeywordSlot + 1])
    THEN 1
    ELSE IF idx = WordCountSlot THEN WordCount(text_lower)
    ELSE Cardinality({i \in DOMAIN slots : slots[i] = idx})

\* Ten entries of the vector from entry idx on.
RawBlock(t, s, idx) ==
    <<RawEntry(t, s, idx), RawEntry(t, s, idx + 1), RawEntry(t, s, idx + 2),
      RawEntry(t, s, idx + 3), RawEntry(t, s, idx + 4), RawEntry(t, s, idx + 5),
      RawEntry(t, s, idx + 6), RawEntry(t, s, idx + 7), RawEntry(t, s, idx + 8),
      RawEntry(t, s, idx + 9)>>

\* The entries below idx, block by block.
RECURSIVE RawUpTo(_, _, _)
RawUpTo(text_lower, slots, idx) ==
    IF idx <= 0 THEN <<>>
    ELSE RawUpTo(text_lower, slots, idx - 10) \o RawBlock(text_lower, slots, idx - 10)

\* VectorStore._simple_embedding.  The vector returned is raw / sqrt(n2) (raw
\* itself when n2 = 0): the division is left symbolic, so raw and n2 are
\* integers.
SimpleEmbedding(text) ==
    LET text_lower == Lower(text)
        raw == RawUpTo(text_lower, Slots(text_lower), EmbeddingDim)
    IN  [raw |-> raw, n2 |-> SumSquares(raw, EmbeddingDim)]

\* np.dot(query_embedding, notice_embedding): dot / sqrt(qn2 * en2), the n2 of
\* a zero vector counted as 1.
Similarity(q, e) ==
    [dot |-> DotTo(q.raw, e.raw, EmbeddingDim),
     qn2 |-> IF q.n2 = 0 THEN 1 ELSE q.n2,
     en2 |-> IF e.n2 = 0 THEN 1 ELSE e.n2]

\* a < b for two similarities to the same query (dot products of vectors
\* without negative entries): dot_a / sqrt(en2_a) < dot_b / sqrt(en2_b).
SimLess(a, b) == a.dot * a.dot * b.en2 < b.dot * b.dot * a.en2

\* The insertion of a sort that puts x before the elements equal to it.
InsertBeforeEqual(sorted, x) ==
    LET ahead == {i \in 1..Len(sorted) : SimLess(x[2], sorted[i][2])}
        n == IF ahead = {} THEN 0 ELSE CHOOSE i \in ahead : \A j \in ahead : j <= i
    IN  SubSeq(sorted, 1, n) \o <<x>> \o SubSeq(sorted, n + 1, Len(sorted))

\* list.sort(key=lambda x: x[1], reverse=True): Python's sort is stable, also
\* with reverse=True, so x goes behind every element that is not smaller.
SortedInsert(sorted, x) ==
    LET ahead == {i \in 1..Len(sorted) : ~SimLess(sorted[i][2], x[2])}
        n == IF ahead = {} THEN 0 ELSE CHOOSE i \in ahead : \A j \in ahead : j <= i
    IN  SubSeq(sorted, 1, n) \o <<x>> \o SubSeq(sorted, n + 1, Len(sorted))

RECURSIVE SortBySimilarity(_, _)
SortBySimilarity(similarities, n) ==
    IF n = 0 THEN <<>>
    ELSE SortedInsert(SortBySimilarity(similarities, n - 1), similarities[n])

\* The loop of search over self.embeddings: similarities.append((i, similarity))
RECURSIVE CosineSimilarities(_, _, _)
CosineSimilarities(query_embedding, embeddings, n) ==
    IF n = 0 THEN <<>>
    ELSE Append(CosineSimilarities(query_embedding, embeddings, n - 1),
                <<n, Similarity(query_embedding, embeddings[n])>>)

\* similarities[:min(top_k, len(similarities))] after the sort: pairs of the
\* position in the index and the similarity.
SearchTop(embeddings, query, k) ==
    LET query_embedding == SimpleEmbedding(query)
        similarities ==
            CosineSimilarities(query_embedding, embeddings, Len(embeddings))
        sorted == SortBySimilarity(similarities, Len(similarities))
    IN  Take(sorted, Min(k, Len(sorted)))

\* VectorStore.search
Search(notices, embeddings, query, k) ==
    IF notices = <<>> THEN <<>>
    ELSE LET top == SearchTop(embeddings, query, k)
         IN  [n \in 1..Len(top) |->
                [notice |-> notices[top[n][1]], similarity |-> top[n][2]]]

\* pickle.dump({'notices': ..., 'embeddings': ...}, f)
Snapshot(notices, embeddings) == [notices |-> notices, embeddings |-> embeddings]

\* The values of vs_pc.  Inside add_notice: the embedding is appended
\* (line 113), the notice is appended too (line 114), save() has opened the
\* file for writing (line 119).
NotRunning == [pc |-> "down"]
Constructed == [pc |-> "constructed"]
Embedded(notice) == [pc |-> "embedded", notice |-> notice]
Listed == [pc |-> "listed"]
Opened == [pc |-> "opened"]

NoFile == [absent |-> TRUE]

\* -------------------------------------------------- app/llm_service.py
\* llm_service.py:38
risk_keywords ==
    <<<<"n", "e", "w">>,
      <<"u", "n", "t", "e", "s", "t", "e", "d">>,
      <<"e", "x", "p", "e", "r", "i", "m", "e", "n", "t", "a", "l">>,
      <<"p", "r", "o", "t", "o", "t", "y", "p", "e">>>>

\* llm_service.py:43
sustainability_keywords ==
    <<<<"s", "u", "s", "t", "a", "i", "n", "a", "b", "l", "e">>,
      <<"e", "c", "o">>,
      <<"g", "r", "e", "e", "n">>,
      <<"r", "e", "n", "e", "w", "a", "b", "l", "e">>,
      <<"e", "n", "v", "i", "r", "o", "n", "m", "e", "n", "t">>>>

\* llm_service.py:52
innovation_keywords ==
    <<<<"i", "n", "n", "o", "v", "a", "t", "i", "v", "e">>,
      <<"a", "i">>,
      <<"a", "d", "v", "a", "n", "c", "e", "d">>,
      <<"s", "m", "a", "r", "t">>,
      <<"m", "o", "d", "e", "r", "n">>>>

\* The count of the places where a keyword occurs, a keyword found three times
\* counted three times
KeywordOccurrences(keywords, content_lower) ==
    Cardinality({p \in (DOMAIN keywords) \X (1..Len(content_lower)) :
                    /\ p[2] + Len(keywords[p[1]]) - 1 <= Len(content_lower)
                    /\ \A j \in 1..Len(keywords[p[1]]) :
                          content_lower[p[2] + j - 1] = keywords[p[1]][j]})

\* sum(1 for kw in keywords if kw in content_lower)
KeywordMatches(keywords, content_lower) ==
    Cardinality({i \in DOMAIN keywords : Contains(content_lower, keywords[i])})

\* get_level with > where the code has >=
GetLevelAbove(score) ==
    IF score > 75 THEN "High" ELSE IF score > 50 THEN "Medium" ELSE "Low"

\* get_level of _mock_analysis
get_level(score) ==
    IF score >= 75 THEN "High" ELSE IF score >= 50 THEN "Medium" ELSE "Low"

\* str.lower() of a level
LevelLower(level) ==
    CASE level = "High" -> "high" [] level = "Medium" -> "medium" [] level = "Low" -> "low"

\* The dict of one dimension, the description left out
DimensionWithoutDescription(score, before, after) ==
    Obj([score |-> Num(score), level |-> Str(<<get_level(score)>>)])

\* The dict of one dimension: round(score, 2), the level, and the description
\* with the level in lower case between its fixed parts.
Dimension(score, before, after) ==
    Obj([score |-> Num(score),
         level |-> Str(<<get_level(score)>>),
         description |-> Str(<<before, LevelLower(get_level(score)), after>>)])

\* 0.6 + (num_similar * 0.03), the limit of 1.0 left out
CompetitionUncapped(num_similar) == 60 + num_similar * 3

\* competition_score = min(0.6 + (num_similar * 0.03), 1.0)
CompetitionScoreFor(num_similar) == Min(60 + num_similar * 3, 100)

\* _mock_analysis with the competition score counting the analyses stored so
\* far next to the similar notices
MockAnalysisCounting(draft_content, similar_notices) ==
    LET content_lower == Lower(draft_content)
        seen == Len(similar_notices) + Len(db_analyses)
        risk_score ==
            Min(KeywordMatches(risk_keywords, content_lower) * 15 + 40, 100)
        sustainability_score ==
            Min(KeywordMatches(sustainability_keywords, content_lower) * 20 + 30, 100)
        competition_score == CompetitionScoreFor(seen)
        innovation_score ==
            Min(KeywordMatches(innovation_keywords, content_lower) * 15 + 50, 100)
    IN  Obj([risk |-> Dimension(risk_score, "risk level is ", ". careful consideration"),
         sustainability |->
             Dimension(sustainability_score, "sustainability score is ", ". eco-friendly"),
         competition |->
             Dimension(competition_score, "Competition level is ",
                       " based on " \o ToString(seen) \o " similar tenders"),
         innovation |->
             Dimension(innovation_score, "innovation aspect is rated as ", ". potential"),
         recommendation |->
             Str(<<"competition level of ", LevelLower(get_level(competition_score)),
                   ". innovation potential is ",
                   LevelLower(get_level(innovation_score))>>)])

\* LLMService._mock_analysis
MockAnalysis(draft_content, similar_notices) ==
    LET content_lower == Lower(draft_content)
        risk_score ==
            Min(KeywordMatches(risk_keywords, content_lower) * 15 + 40, 100)
        sustainability_score ==
            Min(KeywordMatches(sustainability_keywords, content_lower) * 20 + 30, 100)
        competition_score == CompetitionScoreFor(Len(similar_notices))
        innovation_score ==
            Min(KeywordMatches(innovation_keywords, content_lower) * 15 + 50, 100)
    IN  Obj([risk |-> Dimension(risk_score, "risk level is ", ". careful consideration"),
         sustainability |->
             Dimension(sustainability_score, "sustainability score is ", ". eco-friendly"),
         competition |->
             Dimension(competition_score, "Competition level is ",
                       " based on " \o ToString(Len(similar_notices))
                           \o " similar tenders"),
         innovation |->
             Dimension(innovation_score, "innovation aspect is rated as ", ". potential"),
         recommendation |->
             Str(<<"competition level of ", LevelLower(get_level(competition_score)),
                   ". innovation potential is ",
                   LevelLower(get_level(innovation_score))>>)])

\* What a generated analysis of the expected shape looks like.
LlmDimension == Obj([score |-> Num(50), level |-> Str(<<"Medium">>), description |-> Text])

LlmAnalysis ==
    [risk |-> LlmDimension, sustainability |-> LlmDimension,
     competition |-> LlmDimension, innovation |-> LlmDimension,
     recommendation |-> Text]

\* The JSON texts the "response" field of the backend can hold: not JSON, a
\* list, the expected object, the object without one key, with a dimension
\* that is not an object, with a recommendation that is not a string.
GenerateTexts ==
    {Malformed, JsonText(Arr(<<>>)), JsonText(Obj(LlmAnalysis)),
     JsonText(Obj(Drop(LlmAnalysis, "risk"))),
     JsonText(Obj(Drop(LlmAnalysis, "recommendation"))),
     JsonText(Obj([LlmAnalysis EXCEPT !.risk = Str(<<"high">>)])),
     JsonText(Obj([LlmAnalysis EXCEPT !.recommendation = Obj(<<>>)]))}

\* What the POST of _real_analysis can end in.
GenerateOutcomes ==
    {[kind |-> "ConnectionError"], [kind |-> "Timeout"], [kind |-> "status_500"],
     [kind |-> "body_not_json"], [kind |-> "no_response_key"]}
    \cup {[kind |-> "response", text |-> t] : t \in GenerateTexts}

\* LLMService._real_analysis: the generated analysis as parsed, whatever its
\* shape, and the mock analysis on a status other than 200 or any exception.
RealAnalysis(draft_content, similar_notices, out) ==
    CASE out.kind \in {"ConnectionError", "Timeout", "status_500", "body_not_json"} ->
             MockAnalysis(draft_content, similar_notices)
      [] out.kind = "no_response_key" -> Obj(<<>>)
      [] out.kind = "response" ->
             IF JsonLoads(out.text).tag = "raise"
             THEN MockAnalysis(draft_content, similar_notices)
             ELSE JsonLoads(out.text).value

\* LLMService.analyze_draft
LlmAnalyzeDraft(mock, draft_content, similar_notices, out) ==
    IF mock THEN MockAnalysis(draft_content, similar_notices)
    ELSE RealAnalysis(draft_content, similar_notices, out)

\* ------------------------------------------------------- main.py: requests
Requests == 1..MaxReq
DraftIds == 1..(MaxDrafts + 1)

\* A coroutine of analyze_draft.  calls counts the POSTs to the backend; first
\* is what the first attempt ended in ("none" while it has not).
Idle ==
    [pc |-> "idle", draft_id |-> 0, retrieved |-> <<>>, calls |-> 0,
     first |-> "none"]

NoResponse == [op |-> "none", status |-> 0]

\* What an attempt ended in, for the request's record: the parsed analysis was
\* returned, or the named exception was raised.
Ended(res) == IF res.tag = "return" THEN "returned" ELSE res.exc

\* Coroutines have no identity of their own: a new request takes the lowest
\* free slot.
FreeSlot(r) ==
    /\ req[r].pc = "idle"
    /\ \A q \in Requests : q < r => req[q].pc # "idle"

DraftFound(d) == d \in DOMAIN drafts_db

\* The entry is updated field by field: an entry that is there keeps its
\* analysis and takes the new retrieved notices.
StoreAnalysisFieldwise(db, d, retrieved, analysis) ==
    With(db, d, [draft_id |-> d, retrieved_notices |-> retrieved,
                 analysis |-> IF d \in DOMAIN db THEN db[d].analysis ELSE analysis])

\* analysis_db[draft_id] = {...}
StoreAnalysis(db, d, retrieved, analysis) ==
    With(db, d, [draft_id |-> d, retrieved_notices |-> retrieved,
                 analysis |-> analysis])

\* The response of analyze_draft, with the request's history beside it.
AnalyzeResponse(d, calls, first, second, retrieved, analysis) ==
    [op |-> "analyze", status |-> 200, draft_id |-> d, calls |-> calls,
     first |-> first, second |-> second,
     retrieved_notices |-> retrieved, analysis |-> analysis]

\* startup_event with no data/notices.cleaned.json
StartupNoFile ==
    /\ app = "main"
    /\ ~started
    /\ started' = TRUE
    /\ resp' = NoResponse
    /\ UNCHANGED <<app, routesVars, notices_data, tfidf_fitted, drafts_db, analysis_db,
                   next_draft_id, req>>

\* startup_event with a data file: the index is fitted when it is not empty.
StartupLoad ==
    /\ app = "main"
    /\ ~started
    /\ \E corpus \in CorpusFiles :
         /\ notices_data' = corpus
         /\ tfidf_fitted' = (corpus # <<>>)
    /\ started' = TRUE
    /\ resp' = NoResponse
    /\ UNCHANGED <<app, routesVars, drafts_db, analysis_db, next_draft_id, req>>

\* POST /drafts with next_draft_id left as it is: the draft takes the place of
\* the one stored under the same id.
CreateDraftReusingId(titles) ==
    /\ app = "main"
    /\ started
    /\ next_draft_id <= MaxDrafts
    /\ \E title \in titles, description \in Descriptions, cpv \in Cpvs :
         LET draft_data == [id |-> next_draft_id, title |-> title,
                            description |-> description, cpv |-> cpv]
         IN  /\ drafts_db' = With(drafts_db, next_draft_id, draft_data)
             /\ resp' = [op |-> "create", status |-> 200, body |-> draft_data]
    /\ UNCHANGED <<app, routesVars, started, notices_data, tfidf_fitted, analysis_db, req,
                   next_draft_id>>

\* POST /drafts
CreateDraft(titles) ==
    /\ app = "main"
    /\ started
    /\ next_draft_id <= MaxDrafts
    /\ \E title \in titles, description \in Descriptions, cpv \in Cpvs :
         LET draft_data == [id |-> next_draft_id, title |-> title,
                            description |-> description, cpv |-> cpv]
         IN  /\ drafts_db' = With(drafts_db, next_draft_id, draft_data)
             /\ resp' = [op |-> "create", status |-> 200, body |-> draft_data]
    /\ next_draft_id' = next_draft_id + 1
    /\ UNCHANGED <<app, routesVars, started, notices_data, tfidf_fitted, analysis_db, req>>

\* The index is taken to be there whatever startup did
IndexNeverMissing == FALSE

\* tfidf_vectorizer is None or tfidf_matrix is None
IndexMissing == ~tfidf_fitted

\* POST /drafts/{draft_id}/analyze, refused: 404 or 503.
AnalyzeRefused(d) ==
    /\ app = "main"
    /\ started
    /\ ~DraftFound(d) \/ IndexMissing
    /\ resp' = [op |-> "analyze", draft_id |-> d,
                status |-> IF ~DraftFound(d) THEN 404 ELSE 503]
    /\ UNCHANGED <<app, routesVars, started, notices_data, tfidf_fitted, drafts_db, analysis_db,
                   next_draft_id, req>>

\* POST /drafts/{draft_id}/analyze up to the first await: retrieval, the
\* prompt, and the first POST to the backend.
AnalyzeStart(r, d) ==
    /\ app = "main"
    /\ started
    /\ FreeSlot(r)
    /\ DraftFound(d)
    /\ ~IndexMissing
    /\ LET draft_text == drafts_db[d].title \cup drafts_db[d].description
           sims == Similarities(draft_text, notices_data)
       IN  \E order \in Argsort(sims) :
             req' = [req EXCEPT ![r] =
                       [Idle EXCEPT !.pc = "call1", !.draft_id = d,
                           !.retrieved =
                               RetrievedNotices(notices_data, sims, TopIndices(order)),
                           !.calls = 1]]
    /\ resp' = NoResponse
    /\ UNCHANGED <<app, routesVars, started, notices_data, tfidf_fitted, drafts_db, analysis_db,
                   next_draft_id>>

\* The rest of analyze_draft once generate_analysis has returned or raised:
\* store the result under the draft id and return it.
Complete(r, first, second, res) ==
    LET analysis == IF res.tag = "return" THEN res.value ELSE Placeholder(res.exc)
        d == req[r].draft_id
    IN  /\ analysis_db' = StoreAnalysis(analysis_db, d, req[r].retrieved, analysis)
        /\ resp' = AnalyzeResponse(d, req[r].calls, first, second,
                                   req[r].retrieved, analysis)
        /\ req' = [req EXCEPT ![r] = Idle]

\* The first POST ends and its response parses, or an exception other than the
\* two caught ones is raised.
FirstAttemptEnds(r, outcomes) ==
    /\ app = "main"
    /\ req[r].pc = "call1"
    /\ \E out \in outcomes :
         LET res == Attempt(out)
         IN  /\ res.tag = "raise" => ~RetryCaught(res.exc)
             /\ Complete(r, Ended(res), "none", res)
    /\ UNCHANGED <<app, routesVars, started, notices_data, tfidf_fitted, drafts_db, next_draft_id>>

\* The first attempt raises ValidationError or JSONDecodeError: the strict
\* prompt is POSTed.
StrictRetry(r, outcomes) ==
    /\ app = "main"
    /\ req[r].pc = "call1"
    /\ \E out \in outcomes :
         LET res == Attempt(out)
         IN  /\ res.tag = "raise"
             /\ RetryCaught(res.exc)
             /\ req' = [req EXCEPT ![r].pc = "call2", ![r].first = Ended(res),
                                   ![r].calls = 2]
    /\ resp' = NoResponse
    /\ UNCHANGED <<app, routesVars, started, notices_data, tfidf_fitted, drafts_db, analysis_db,
                   next_draft_id>>

\* The strict POST never ends: no response, no timeout
RetryHangs(r, outcomes) ==
    /\ app = "main"
    /\ req[r].pc = "call2"
    /\ outcomes = {}
    /\ UNCHANGED vars

\* The strict POST ends: its parsed response is returned, or its exception
\* leaves generate_analysis.
RetryAttemptEnds(r, outcomes) ==
    /\ app = "main"
    /\ req[r].pc = "call2"
    /\ \E out \in outcomes :
         LET res == Attempt(out)
         IN  Complete(r, req[r].first, Ended(res), res)
    /\ UNCHANGED <<app, routesVars, started, notices_data, tfidf_fitted, drafts_db, next_draft_id>>

\* The caller gives up while a POST is awaited and the request's task is
\* cancelled: CancelledError, which `except Exception` does not catch, leaves
\* analyze_draft; nothing is stored and nothing is answered.
Abandon(r) ==
    /\ app = "main"
    /\ req[r].pc \in {"call1", "call2"}
    /\ req' = [req EXCEPT ![r] = Idle]
    /\ resp' = [op |-> "abandoned", status |-> 0, draft_id |-> req[r].draft_id,
                calls |-> req[r].calls]
    /\ UNCHANGED <<app, routesVars, started, notices_data, tfidf_fitted, drafts_db,
                   analysis_db, next_draft_id>>

\* response_model=Analysis: draft_id and top_notices are required.
AnalysisModelFields == {"draft_id", "top_notices"}

\* GET /drafts/{draft_id}/analysis
GetAnalysis(d) ==
    /\ app = "main"
    /\ started
    /\ resp' =
         IF d \notin DOMAIN analysis_db
         THEN [op |-> "get", draft_id |-> d, status |-> 404]
         ELSE IF AnalysisModelFields \subseteq DOMAIN analysis_db[d]
              THEN [op |-> "get", draft_id |-> d, status |-> 200,
                    body |-> analysis_db[d]]
              ELSE [op |-> "get", draft_id |-> d, status |-> 500]
    /\ UNCHANGED <<app, routesVars, started, notices_data, tfidf_fitted, drafts_db, analysis_db,
                   next_draft_id, req>>

\* ------------------------------------------- app/routes.py, database.py
\* "Smart AI"
TextSmartAi ==
    <<"S", "m", "a", "r", "t", " ", "A", "I">>

\* "renewable"
TextRenewable ==
    <<"r", "e", "n", "e", "w", "a", "b", "l", "e">>

\* "Supply of advanced medical equipment for hospitals"
TextSupply ==
    <<"S", "u", "p", "p", "l", "y", " ", "o", "f", " ", "a", "d", "v", "a",
      "n", "c", "e", "d", " ", "m", "e", "d", "i", "c", "a", "l", " ", "e",
      "q", "u", "i", "p", "m", "e", "n", "t", " ", "f", "o", "r", " ", "h",
      "o", "s", "p", "i", "t", "a", "l", "s">>

\* The contents a draft is created with.
Contents == {TextSmartAi, TextRenewable}

\* The queries searched for: the contents, and the text of a sample notice.
Queries == Contents \cup {TextSupply}

\* The notices added to the index: a new text, and the text of a sample notice.
AddedNotices == {TextSmartAi, TextSupply}

\* The values of top_k that search is called with: below, at and above the
\* size of the seed corpus.
TopKs == {1, 10, 16}

sample_embeddings == [i \in DOMAIN sample_notices |-> SimpleEmbedding(sample_notices[i])]

\* A notices.pkl left by an earlier process that held two notices.
EarlierSnapshot ==
    Snapshot(<<TextSupply, TextSmartAi>>,
             <<SimpleEmbedding(TextSupply), SimpleEmbedding(TextSmartAi)>>)

\* What notices.pkl can be when the process starts.
InitialFiles == {NoFile, EarlierSnapshot}

\* The sample notices put after whatever the file holds
LoadThenSeed(file) ==
    LET found == IF file # NoFile THEN file ELSE Snapshot(<<>>, <<>>)
        seeded == Snapshot(found.notices \o sample_notices,
                           found.embeddings \o sample_embeddings)
    IN  [notices |-> seeded.notices, embeddings |-> seeded.embeddings,
         file |-> seeded]

\* VectorStore._load_or_initialize and _initialize_sample_data: the index and
\* the file once the constructor has returned.
LoadOrInitialize(file) ==
    IF file # NoFile
    THEN [notices |-> file.notices, embeddings |-> file.embeddings, file |-> file]
    ELSE [notices |-> sample_notices, embeddings |-> sample_embeddings,
          file |-> Snapshot(sample_notices, sample_embeddings)]

\* db.query(Draft).filter(Draft.id == draft_id).first()
FindDraft(rows, draft_id) == {i \in DOMAIN rows : rows[i].id = draft_id}

\* The lookup of an analysis that finds none.
NoAnalysisFound(rows, draft_id) == {}

\* db.query(Analysis).filter(Analysis.draft_id == draft_id).first()
ExistingAnalysis(rows, draft_id) == {i \in DOMAIN rows : rows[i].draft_id = draft_id}

First(S) == CHOOSE i \in S : \A j \in S : i <= j

AnalysisKeys == {"risk", "sustainability", "competition", "innovation", "recommendation"}
DimensionKeys == {"risk", "sustainability", "competition", "innovation"}

\* RiskAnalysis, SustainabilityAnalysis, ... of models.py
ValidDimension(v) ==
    /\ IsObj(v)
    /\ {"score", "level", "description"} \subseteq DOMAIN v.f
    /\ IsNum(v.f["score"])
    /\ IsStr(v.f["level"])
    /\ IsStr(v.f["description"])

\* response_model=AnalysisResponse on a row of table analyses
ValidAnalysisResponse(row) ==
    /\ \A k \in DimensionKeys : ValidDimension(row[k])
    /\ IsStr(row.recommendation)

\* The Analysis(...) of routes.py:39-46 and its commit: the subscripts need a
\* dict holding the five keys, the Text column a value SQLite can bind, and
\* draft_id is unique.
CanStore(rows, draft_id, analysis_result) ==
    /\ IsObj(analysis_result)
    /\ AnalysisKeys \subseteq DOMAIN analysis_result.f
    /\ ~IsObj(analysis_result.f["recommendation"])
    /\ ExistingAnalysis(rows, draft_id) = {}

AnalysisRow(rows, draft_id, analysis_result) ==
    [id |-> Len(rows) + 1, draft_id |-> draft_id,
     risk |-> analysis_result.f["risk"],
     sustainability |-> analysis_result.f["sustainability"],
     competition |-> analysis_result.f["competition"],
     innovation |-> analysis_result.f["innovation"],
     recommendation |-> analysis_result.f["recommendation"]]

\* The response for a row under response_model=AnalysisResponse, with what
\* the request did beside it.
RowResponse(row, calls, first, source) ==
    [op |-> "analyze", status |-> IF ValidAnalysisResponse(row) THEN 200 ELSE 500,
     draft_id |-> row.draft_id, calls |-> calls, first |-> first,
     source |-> source, row |-> row]

InitMain ==
    /\ started = FALSE
    /\ notices_data = <<>>
    /\ tfidf_fitted = FALSE
    /\ drafts_db = <<>>
    /\ analysis_db = <<>>
    /\ next_draft_id = 1
    /\ req = [r \in Requests |-> Idle]
    /\ resp = NoResponse

\* backend/main.py is served: nothing of backend/app is constructed.
InitNoRoutes ==
    /\ db_drafts = <<>>
    /\ db_analyses = <<>>
    /\ vs_notices = <<>>
    /\ vs_embeddings = <<>>
    /\ notices_file = NoFile
    /\ use_mock = FALSE
    /\ vs_pc = NotRunning

\* backend/app/main.py is served: the tables are created empty, vector_store
\* and llm_service are constructed at import.
InitRoutes ==
    /\ db_drafts = <<>>
    /\ db_analyses = <<>>
    /\ \E file \in InitialFiles :
         /\ vs_notices = LoadOrInitialize(file).notices
         /\ vs_embeddings = LoadOrInitialize(file).embeddings
         /\ notices_file = LoadOrInitialize(file).file
    /\ use_mock \in BOOLEAN
    /\ vs_pc = Constructed

Init ==
    /\ app \in {"main", "routes"}
    /\ InitMain
    /\ IF app = "main" THEN InitNoRoutes ELSE InitRoutes

\* POST /drafts of routes.py
RoutesCreateDraft ==
    /\ app = "routes"
    /\ Len(db_drafts) < MaxDrafts
    /\ \E content \in Contents :
         LET db_draft == [id |-> Len(db_drafts) + 1, title |-> Text,
                          content |-> content]
         IN  /\ db_drafts' = Append(db_drafts, db_draft)
             /\ resp' = [op |-> "create", status |-> 200, body |-> db_draft]
    /\ UNCHANGED <<app, mainVars_but_resp, db_analyses, vs_notices, vs_embeddings,
                   notices_file, use_mock, vs_pc>>

\* POST /drafts/{draft_id}/analyze of routes.py, no such draft
RoutesAnalyzeNotFound(d) ==
    /\ app = "routes"
    /\ FindDraft(db_drafts, d) = {}
    /\ resp' = [op |-> "analyze", status |-> 404, draft_id |-> d]
    /\ UNCHANGED <<app, mainVars_but_resp, routesVars>>

\* POST /drafts/{draft_id}/analyze of routes.py, the analysis exists
RoutesAnalyzeStored(d) ==
    /\ app = "routes"
    /\ FindDraft(db_drafts, d) # {}
    /\ ExistingAnalysis(db_analyses, d) # {}
    /\ resp' = RowResponse(db_analyses[First(ExistingAnalysis(db_analyses, d))],
                           0, "none", "stored")
    /\ UNCHANGED <<app, mainVars_but_resp, routesVars>>

\* The rest of analyze_draft of routes.py once llm_service has returned.
RoutesStore(d, analysis_result, calls, first) ==
    IF CanStore(db_analyses, d, analysis_result)
    THEN LET row == AnalysisRow(db_analyses, d, analysis_result)
         IN  /\ db_analyses' = Append(db_analyses, row)
             /\ resp' = RowResponse(row, calls, first, "generated")
    ELSE /\ db_analyses' = db_analyses
         /\ resp' = [op |-> "analyze", status |-> 500, draft_id |-> d,
                     calls |-> calls, first |-> first, source |-> "none"]

\* analyze_draft in mock mode with the draft added to the index on the way
RoutesAnalyzeMockIndexing(d) ==
    /\ app = "routes"
    /\ FindDraft(db_drafts, d) # {}
    /\ ExistingAnalysis(db_analyses, d) = {}
    /\ use_mock
    /\ LET draft == db_drafts[First(FindDraft(db_drafts, d))]
           similar_notices == Search(vs_notices, vs_embeddings, draft.content, top_k)
       IN  /\ RoutesStore(d, LlmAnalyzeDraft(use_mock, draft.content, similar_notices,
                                             [kind |-> "none"]), 0, "none")
           /\ vs_embeddings' = Append(vs_embeddings, SimpleEmbedding(draft.content))
           /\ vs_notices' = Append(vs_notices, draft.content)
           /\ notices_file' = Snapshot(vs_notices', vs_embeddings')
    /\ UNCHANGED <<app, mainVars_but_resp, db_drafts, use_mock, vs_pc>>

\* POST /drafts/{draft_id}/analyze of routes.py with llm_service.use_mock
RoutesAnalyzeMock(d) ==
    /\ app = "routes"
    /\ FindDraft(db_drafts, d) # {}
    /\ ExistingAnalysis(db_analyses, d) = {}
    /\ use_mock
    /\ LET draft == db_drafts[First(FindDraft(db_drafts, d))]
           similar_notices == Search(vs_notices, vs_embeddings, draft.content, top_k)
       IN  RoutesStore(d, LlmAnalyzeDraft(use_mock, draft.content, similar_notices,
                                          [kind |-> "none"]), 0, "none")
    /\ UNCHANGED <<app, mainVars_but_resp, db_drafts, vs_notices, vs_embeddings,
                   notices_file, use_mock, vs_pc>>

\* POST /drafts/{draft_id}/analyze of routes.py with the backend in use
RoutesAnalyzeReal(d, outcomes) ==
    /\ app = "routes"
    /\ FindDraft(db_drafts, d) # {}
    /\ ExistingAnalysis(db_analyses, d) = {}
    /\ ~use_mock
    /\ LET draft == db_drafts[First(FindDraft(db_drafts, d))]
           similar_notices == Search(vs_notices, vs_embeddings, draft.content, top_k)
       IN  \E out \in outcomes :
             RoutesStore(d, LlmAnalyzeDraft(use_mock, draft.content, similar_notices,
                                            out), 1, out.kind)
    /\ UNCHANGED <<app, mainVars_but_resp, db_drafts, vs_notices, vs_embeddings,
                   notices_file, use_mock, vs_pc>>

\* GET /drafts/{draft_id}/analysis of routes.py
RoutesGetAnalysis(d) ==
    /\ app = "routes"
    /\ resp' =
         IF ExistingAnalysis(db_analyses, d) = {}
         THEN [op |-> "get", status |-> 404, draft_id |-> d]
         ELSE [RowResponse(db_analyses[First(ExistingAnalysis(db_analyses, d))],
                           0, "none", "stored") EXCEPT !.op = "get"]
    /\ UNCHANGED <<app, mainVars_but_resp, routesVars>>

\* vector_store.search(query, top_k) called directly; beside the results, the
\* positions in the index they were taken from.
VsSearch(query, k) ==
    /\ app = "routes"
    /\ resp' = [op |-> "search", status |-> 0, query |-> query, k |-> k,
                results |-> Search(vs_notices, vs_embeddings, query, k),
                taken |-> IF vs_notices = <<>> THEN <<>>
                          ELSE LET top == SearchTop(vs_embeddings, query, k)
                               IN  [n \in 1..Len(top) |-> top[n][1]]]
    /\ UNCHANGED <<app, mainVars_but_resp, routesVars>>

\* add_notice without the call of save()
VsAddNoticeUnsaved(notice) ==
    /\ app = "routes"
    /\ Len(vs_notices) >= Len(sample_notices)
    /\ Len(vs_notices) < Len(sample_notices) + MaxAdds
    /\ vs_embeddings' = Append(vs_embeddings, SimpleEmbedding(notice))
    /\ vs_notices' = Append(vs_notices, notice)
    /\ resp' = NoResponse
    /\ UNCHANGED <<app, mainVars_but_resp, db_drafts, db_analyses, notices_file,
                   use_mock, vs_pc>>

\* VectorStore.add_notice: both lists grow, then save() rewrites the file.
\* Notices are added to an index seeded with the sample notices, MaxAdds times.
VsAddNotice(notice) ==
    /\ app = "routes"
    /\ Len(vs_notices) >= Len(sample_notices)
    /\ Len(vs_notices) < Len(sample_notices) + MaxAdds
    /\ vs_embeddings' = Append(vs_embeddings, SimpleEmbedding(notice))
    /\ vs_notices' = Append(vs_notices, notice)
    /\ notices_file' = Snapshot(vs_notices', vs_embeddings')
    /\ resp' = NoResponse
    /\ UNCHANGED <<app, mainVars_but_resp, db_drafts, db_analyses, use_mock, vs_pc>>

\* The orchestration: up to MaxDrafts drafts and MaxReq analyze requests in
\* flight together; the backend answers with one outcome of each kind the
\* orchestration tells apart (a valid analysis, text that is not JSON, no
\* connection).
OrchestrationOutcomes ==
    {[kind |-> "content", text |-> JsonText(Obj(GoodData(100)))],
     [kind |-> "content", text |-> Malformed],
     [kind |-> "ConnectError"]}

\* The drafts of the orchestration carry one title.
OrchestrationTitles == {2..10}

Next ==
    \/ StartupNoFile
    \/ StartupLoad
    \/ CreateDraft(OrchestrationTitles)
    \/ \E d \in DraftIds : AnalyzeRefused(d)
    \/ \E r \in Requests, d \in DraftIds : AnalyzeStart(r, d)
    \/ \E r \in Requests : FirstAttemptEnds(r, OrchestrationOutcomes)
    \/ \E r \in Requests : StrictRetry(r, OrchestrationOutcomes)
    \/ \E r \in Requests : RetryAttemptEnds(r, OrchestrationOutcomes)
    \/ \E d \in DraftIds : GetAnalysis(d)
    \/ RoutesCreateDraft
    \/ \E d \in DraftIds : RoutesAnalyzeNotFound(d)
    \/ \E d \in DraftIds : RoutesAnalyzeStored(d)
    \/ \E d \in DraftIds : RoutesAnalyzeMock(d)
    \/ \E d \in DraftIds : RoutesAnalyzeReal(d, GenerateOutcomes)
    \/ \E d \in DraftIds : RoutesGetAnalysis(d)

Spec == Init /\ [][Next]_vars

\* The vector store on its own: notices are added and the index is searched.
NextStore ==
    \/ \E query \in Queries, k \in TopKs : VsSearch(query, k)
    \/ \E notice \in AddedNotices : VsAddNotice(notice)

SpecStore == Init /\ [][NextStore]_vars

\* The rubric with the fields of set present only.
QAOfFields(present) == [k \in present |-> Text]

ParseConfidences == ValidConfidences \cup OutOfRangeConfidences \cup {50}

\* The texts _parse_response is applied to: those of the backend outcomes, and
\* every subset of the rubric with every confidence.
ParseTexts ==
    ResponseTexts
    \cup {JsonText(Obj([GoodData(c) EXCEPT
                           !.qualitative_analysis = Obj(QAOfFields(present))])) :
             c \in ParseConfidences, present \in SUBSET QAFields}
    \cup {JsonText(Obj([GoodData(50) EXCEPT !.qualitative_analysis = v])) :
             v \in {Null, Arr(<<>>), Text}}

\* The opening and the closing lines of a code block, and what follows it.
OpenFences == {FenceLine(0, ""), FenceLine(0, "json"), FenceLine(2, "json")}
CloseFences == {FenceLine(0, ""), FenceLine(2, "")}
Trailers == {<<>>, <<BlankLine>>}

\* The blocks put inside a code block.
FencedBodies ==
    {Malformed, BlankLine, JsonText(Arr(<<>>)), JsonText(Obj(GoodData(100))),
     JsonText(Obj(GoodData(101))), JsonText(Obj(Drop(GoodData(50), "caveats")))}

Wrap(open, body, close, trailer) ==
    [syntax |-> "lines", lines |-> <<open, body, close>> \o trailer]

\* Responses in a code block, in one that is not closed, and after one that
\* was not opened.
FencedTexts ==
    {Wrap(o, b, c, t) : o \in OpenFences, b \in FencedBodies, c \in CloseFences,
                        t \in Trailers}
    \cup {[syntax |-> "lines", lines |-> <<o, b>>] :
             o \in OpenFences, b \in FencedBodies}
    \cup {[syntax |-> "lines", lines |-> <<b, c>>] :
             b \in FencedBodies, c \in CloseFences}

\* OllamaClient._parse_response applied to one text.
ParseStep ==
    /\ \E text \in ParseTexts \cup FencedTexts :
         resp' = [op |-> "parse", status |-> 0, text |-> text,
                  result |-> ParseResponse(text)]
    /\ UNCHANGED <<app, mainVars_but_resp, routesVars>>

NextParse == ParseStep

SpecParse == Init /\ [][NextParse]_vars

\* The generator: one draft, one analyze request at a time, and every outcome
\* of the backend.
NextGen ==
    \/ StartupNoFile
    \/ StartupLoad
    \/ (next_draft_id = 1 /\ CreateDraft(Titles))
    \/ \E d \in DraftIds : AnalyzeRefused(d)
    \/ \E d \in DraftIds : AnalyzeStart(1, d)
    \/ FirstAttemptEnds(1, CallOutcomes)
    \/ StrictRetry(1, CallOutcomes)
    \/ RetryAttemptEnds(1, CallOutcomes)
    \/ Abandon(1)
    \/ \E d \in DraftIds : GetAnalysis(d)
    \/ (db_drafts = <<>> /\ RoutesCreateDraft)
    \/ \E d \in DraftIds : RoutesAnalyzeNotFound(d)
    \/ \E d \in DraftIds : RoutesAnalyzeStored(d)
    \/ \E d \in DraftIds : RoutesAnalyzeMock(d)
    \/ \E d \in DraftIds : RoutesAnalyzeReal(d, GenerateOutcomes)
    \/ \E d \in DraftIds : RoutesGetAnalysis(d)
    \/ \E query \in Queries, k \in TopKs : VsSearch(query, k)

SpecGen == Init /\ [][NextGen]_vars

\* ------------------------------------ app/vector_store.py, statement by statement
\* The process of backend/app from before vector_store is constructed: the
\* constructor, add_notice and save() one statement at a time, the process
\* killed at any of them, and search called from another thread meanwhile.

\* notices.pkl after open(..., "wb") and before anything is written
EmptyFile == [empty |-> TRUE]

\* notices.pkl with the first part of a dump only
TruncatedFile(snapshot) == [truncated |-> snapshot]

\* Snapshots whose two lists differ in length.
EmbeddingsLonger ==
    Snapshot(<<TextSupply>>, <<SimpleEmbedding(TextSupply), SimpleEmbedding(TextSmartAi)>>)

NoticesLonger == Snapshot(<<TextSupply, TextSmartAi>>, <<SimpleEmbedding(TextSupply)>>)

\* What notices.pkl can be when the process is first started.
StartFiles == {NoFile, EarlierSnapshot, EmbeddingsLonger, NoticesLonger}

\* pickle.load(f) returns a dict with both keys.
Unpickles(file) == "notices" \in DOMAIN file

\* What pickle.load raises on a file it cannot read.
LoadError(file) ==
    IF "empty" \in DOMAIN file THEN "EOFError" ELSE "UnpicklingError"

IndexInit ==
    /\ app = "routes"
    /\ InitMain
    /\ db_drafts = <<>>
    /\ db_analyses = <<>>
    /\ vs_notices = <<>>
    /\ vs_embeddings = <<>>
    /\ notices_file \in StartFiles
    /\ use_mock = TRUE
    /\ vs_pc = NotRunning

\* vector_store = VectorStore() at the import of app.vector_store.  When
\* pickle.load raises, the import fails and the process ends.
VsConstruct ==
    /\ app = "routes"
    /\ vs_pc = NotRunning
    /\ IF notices_file = NoFile \/ Unpickles(notices_file)
       THEN LET loaded == LoadOrInitialize(notices_file)
            IN  /\ vs_notices' = loaded.notices
                /\ vs_embeddings' = loaded.embeddings
                /\ notices_file' = loaded.file
                /\ vs_pc' = Constructed
                /\ resp' = [op |-> "load", status |-> 0, raised |-> "none",
                            file |-> notices_file]
       ELSE /\ resp' = [op |-> "load", status |-> 0,
                        raised |-> LoadError(notices_file), file |-> notices_file]
            /\ UNCHANGED <<vs_notices, vs_embeddings, notices_file, vs_pc>>
    /\ UNCHANGED <<app, mainVars_but_resp, db_drafts, db_analyses, use_mock>>

\* add_notice, lines 112-113: self.embeddings.append(embedding)
VsAddEmbedding(notice) ==
    /\ app = "routes"
    /\ vs_pc = Constructed
    /\ Len(vs_notices) >= Len(sample_notices)
    /\ Len(vs_notices) < Len(sample_notices) + MaxAdds
    /\ vs_embeddings' = Append(vs_embeddings, SimpleEmbedding(notice))
    /\ vs_pc' = Embedded(notice)
    /\ resp' = NoResponse
    /\ UNCHANGED <<app, mainVars_but_resp, db_drafts, db_analyses, vs_notices,
                   notices_file, use_mock>>

\* add_notice, line 114: self.notices.append(notice)
VsAddListed ==
    /\ app = "routes"
    /\ vs_pc.pc = "embedded"
    /\ vs_notices' = Append(vs_notices, vs_pc.notice)
    /\ vs_pc' = Listed
    /\ resp' = NoResponse
    /\ UNCHANGED <<app, mainVars_but_resp, db_drafts, db_analyses, vs_embeddings,
                   notices_file, use_mock>>

\* save(), line 119: open(self.notices_file, "wb") empties the file
VsSaveOpen ==
    /\ app = "routes"
    /\ vs_pc = Listed
    /\ notices_file' = EmptyFile
    /\ vs_pc' = Opened
    /\ resp' = NoResponse
    /\ UNCHANGED <<app, mainVars_but_resp, db_drafts, db_analyses, vs_notices,
                   vs_embeddings, use_mock>>

\* save(), lines 120-123: pickle.dump and the end of the with block
VsSaveDump ==
    /\ app = "routes"
    /\ vs_pc = Opened
    /\ notices_file' = Snapshot(vs_notices, vs_embeddings)
    /\ vs_pc' = Constructed
    /\ resp' = NoResponse
    /\ UNCHANGED <<app, mainVars_but_resp, db_drafts, db_analyses, vs_notices,
                   vs_embeddings, use_mock>>

\* The process is killed.  Inside save() the file stays as far as it was
\* written: empty, or with the first part of the dump.
VsKill ==
    /\ app = "routes"
    /\ vs_pc # NotRunning
    /\ IF vs_pc = Opened
       THEN notices_file' \in
                {EmptyFile, TruncatedFile(Snapshot(vs_notices, vs_embeddings))}
       ELSE notices_file' = notices_file
    /\ vs_notices' = <<>>
    /\ vs_embeddings' = <<>>
    /\ vs_pc' = NotRunning
    /\ resp' = NoResponse
    /\ UNCHANGED <<app, mainVars_but_resp, db_drafts, db_analyses, use_mock>>

\* The queries and sizes searched for beside add_notice.
ThreadQueries == {TextSmartAi, TextSupply}

\* What search returns or raises when it reads the two lists as they are:
\* line 104 raises IndexError for an embedding that has no notice, unless the
\* notice is appended by add_notice before line 104 reads it.
SearchOutcomes(query, k) ==
    LET top == SearchTop(vs_embeddings, query, k)
        listed == \A n \in 1..Len(top) : top[n][1] <= Len(vs_notices)
        later == Append(vs_notices, vs_pc.notice)
    IN  IF vs_notices = <<>> \/ listed
        THEN {[raised |-> "none",
               results |-> Search(vs_notices, vs_embeddings, query, k)]}
        ELSE {[raised |-> "IndexError", results |-> <<>>]}
             \cup (IF vs_pc.pc = "embedded"
                   THEN {[raised |-> "none",
                          results |-> Search(later, vs_embeddings, query, k)]}
                   ELSE {})

\* VectorStore.search called from a thread of its own, whatever add_notice is
\* doing at the time.
VsSearchThread(query, k) ==
    /\ app = "routes"
    /\ vs_pc # NotRunning
    /\ \E outcome \in SearchOutcomes(query, k) :
         resp' = [op |-> "search", status |-> 0, query |-> query, k |-> k,
                  during |-> vs_pc.pc,
                  notices |-> Len(vs_notices), embeddings |-> Len(vs_embeddings),
                  raised |-> outcome.raised, results |-> outcome.results]
    /\ UNCHANGED <<app, mainVars_but_resp, routesVars>>

NextIndex ==
    \/ VsConstruct
    \/ \E notice \in AddedNotices : VsAddEmbedding(notice)
    \/ VsAddListed
    \/ VsSaveOpen
    \/ VsSaveDump
    \/ VsKill
    \/ \E query \in ThreadQueries, k \in TopKs : VsSearchThread(query, k)

SpecIndex == IndexInit /\ [][NextIndex]_vars

\* --------------------------------------- app/llm_service.py: _mock_analysis
\* The heuristic analyzer on its own: texts with none, some and all of the
\* rubric keywords, and similar lists of every length up to MaxSimilar.
\* ""
TextEmpty ==
    <<>>

\* "road works"
TextRoadWorks ==
    <<"r", "o", "a", "d", " ", "w", "o", "r", "k", "s">>

\* "sustainable eco green"
TextSustainableEcoGreen ==
    <<"s", "u", "s", "t", "a", "i", "n", "a", "b", "l", "e", " ", "e", "c",
      "o", " ", "g", "r", "e", "e", "n">>

\* "Sustainable ECO green, sustainable eco green, sustainable eco green"
TextThreeTimes ==
    <<"S", "u", "s", "t", "a", "i", "n", "a", "b", "l", "e", " ", "E", "C",
      "O", " ", "g", "r", "e", "e", "n", ",", " ", "s", "u", "s", "t", "a",
      "i", "n", "a", "b", "l", "e", " ", "e", "c", "o", " ", "g", "r", "e",
      "e", "n", ",", " ", "s", "u", "s", "t", "a", "i", "n", "a", "b", "l",
      "e", " ", "e", "c", "o", " ", "g", "r", "e", "e", "n">>

\* "new untested experimental prototype sustainable eco green renewable environment innovative ai advanced smart modern"
TextAllKeywords ==
    <<"n", "e", "w", " ", "u", "n", "t", "e", "s", "t", "e", "d", " ", "e",
      "x", "p", "e", "r", "i", "m", "e", "n", "t", "a", "l", " ", "p", "r",
      "o", "t", "o", "t", "y", "p", "e", " ", "s", "u", "s", "t", "a", "i",
      "n", "a", "b", "l", "e", " ", "e", "c", "o", " ", "g", "r", "e", "e",
      "n", " ", "r", "e", "n", "e", "w", "a", "b", "l", "e", " ", "e", "n",
      "v", "i", "r", "o", "n", "m", "e", "n", "t", " ", "i", "n", "n", "o",
      "v", "a", "t", "i", "v", "e", " ", "a", "i", " ", "a", "d", "v", "a",
      "n", "c", "e", "d", " ", "s", "m", "a", "r", "t", " ", "m", "o", "d",
      "e", "r", "n">>


MockTexts ==
    {TextEmpty, TextRoadWorks, TextSmartAi, TextRenewable, TextSupply,
     TextSustainableEcoGreen, TextThreeTimes, TextAllKeywords}

MaxSimilar == 14     \* the longest similar list handed to _mock_analysis

\* The (notice, similarity) pairs of a similar list of n entries.
SimilarList(n) ==
    SubSeq([i \in 1..n |-> [notice |-> TextSupply, rank |-> i]], 1, n)

\* One call of _mock_analysis(draft_content, similar_notices).
MockStep ==
    /\ \E text \in MockTexts, n \in 0..MaxSimilar :
         resp' = [op |-> "mock", status |-> 0, text |-> text,
                  similar |-> SimilarList(n),
                  result |-> MockAnalysis(text, SimilarList(n))]
    /\ UNCHANGED <<app, mainVars_but_resp, routesVars>>

NextMock == MockStep

SpecMock == Init /\ [][NextMock]_vars

\* ------------------------------- services/llm.py: _format_similar_notices
\* A free text is stood for by its length in characters, text[:n] by the
\* smaller of the length and n.  A notice is a dict with some of the keys
\* title, buyer and description_excerpt.
MAX_DESCRIPTION_EXCERPT_LENGTH == 800        \* services/llm.py

FreeTextKeys == {"title", "buyer", "description_excerpt"}

\* len('N/A'), the default of notice.get
LenNA == 3

\* The lengths a field comes with: short, at the limit, and just above it.
FieldLengths ==
    {40, MAX_DESCRIPTION_EXCERPT_LENGTH, MAX_DESCRIPTION_EXCERPT_LENGTH + 1}

FormatNotices ==
    UNION {[keys -> FieldLengths] : keys \in SUBSET FreeTextKeys}

\* A notice as main.py hands it over, its excerpt cut by the caller.
CallerTruncated ==
    [title |-> 40, buyer |-> 40, description_excerpt |-> MAX_DESCRIPTION_EXCERPT_LENGTH]

FormatInputs ==
    {<<>>} \cup {<<n>> : n \in FormatNotices}
           \cup {<<CallerTruncated, n>> : n \in FormatNotices}

\* notice.get(key, 'N/A')
GetOrNA(notice, key) == IF key \in DOMAIN notice THEN notice[key] ELSE LenNA

\* The free texts of one rendered notice.  A description of three characters
\* is left as it is whether or not it is 'N/A'.
FormatNotice(notice) ==
    LET desc0 == GetOrNA(notice, "description_excerpt")
        desc == IF desc0 > MAX_DESCRIPTION_EXCERPT_LENGTH
                THEN Min(desc0, MAX_DESCRIPTION_EXCERPT_LENGTH)
                ELSE desc0
    IN  [title |-> GetOrNA(notice, "title"),
         buyer |-> GetOrNA(notice, "buyer"),
         description |-> desc]

\* OllamaClient._format_similar_notices
FormatSimilarNotices(notices) ==
    IF notices = <<>> THEN [found |-> FALSE, rendered |-> <<>>]
    ELSE [found |-> TRUE,
          rendered |-> SubSeq([i \in DOMAIN notices |-> FormatNotice(notices[i])],
                              1, Len(notices))]

\* One call of _format_similar_notices, as generate_analysis makes it to build
\* the prompt.
FormatStep ==
    /\ \E notices \in FormatInputs :
         resp' = [op |-> "format", status |-> 0, notices |-> notices,
                  context |-> FormatSimilarNotices(notices)]
    /\ UNCHANGED <<app, mainVars_but_resp, routesVars>>

NextFormat == FormatStep

SpecFormat == Init /\ [][NextFormat]_vars

\* The generator of main.py with every POST ending: httpx raises ReadTimeout
\* after the client's timeout (services/llm.py:60, 220), so an awaited POST
\* returns or raises, and the coroutine is resumed.
NextCalls ==
    \/ StartupNoFile
    \/ StartupLoad
    \/ (next_draft_id = 1 /\ CreateDraft(Titles))
    \/ \E d \in DraftIds : AnalyzeRefused(d)
    \/ \E d \in DraftIds : AnalyzeStart(1, d)
    \/ FirstAttemptEnds(1, CallOutcomes)
    \/ StrictRetry(1, CallOutcomes)
    \/ RetryAttemptEnds(1, CallOutcomes)
    \/ \E d \in DraftIds : GetAnalysis(d)

SpecCalls ==
    /\ Init
    /\ [][NextCalls]_vars
    /\ WF_vars(FirstAttemptEnds(1, CallOutcomes) \/ StrictRetry(1, CallOutcomes))
    /\ WF_vars(RetryAttemptEnds(1, CallOutcomes))

\* ----------------------------------------------- scripts/clean_notices.py
\* str.strip() for texts whose only whitespace is the space
RECURSIVE StripLeft(_)
StripLeft(s) == IF s # <<>> /\ s[1] = " " THEN StripLeft(Tail(s)) ELSE s

RECURSIVE StripRight(_)
StripRight(s) ==
    IF s # <<>> /\ s[Len(s)] = " " THEN StripRight(SubSeq(s, 1, Len(s) - 1)) ELSE s

Strip(s) == StripRight(StripLeft(s))

\* "/notices/" and the characters that end the group [^/?#]+
NoticesMarker == <<"/", "n", "o", "t", "i", "c", "e", "s", "/">>
GroupStops == {"/", "?", "#"}

\* The longest run of characters other than /, ? and # from position i on.
RECURSIVE GroupFrom(_, _)
GroupFrom(url, i) ==
    IF i > Len(url) \/ url[i] \in GroupStops THEN <<>>
    ELSE <<url[i]>> \o GroupFrom(url, i + 1)

\* re.search(r"/notices/([^/?#]+)", url): the group of the leftmost match, or
\* the empty text when there is none.
UrlNoticeId(url) ==
    LET n == Len(NoticesMarker)
        starts == {i \in 1..(Len(url) - n) :
                      /\ SubSeq(url, i, i + n - 1) = NoticesMarker
                      /\ url[i + n] \notin GroupStops}
    IN  IF starts = {} THEN <<>> ELSE GroupFrom(url, SetMin(starts) + n)

\* n.get(key) or "" for a value that is a text or missing
TextOrEmpty(n, key) == IF key \in DOMAIN n THEN n[key] ELSE <<>>

\* normalize_notice_id
NormalizeNoticeId(n) ==
    LET notice_id == Strip(TextOrEmpty(n, "notice_id"))
    IN  IF notice_id # <<>> THEN notice_id
        ELSE UrlNoticeId(Strip(TextOrEmpty(n, "url")))

\* clean_record, as far as the identifier and the url go
CleanRecord(n) ==
    [notice_id |-> NormalizeNoticeId(n), url |-> Strip(TextOrEmpty(n, "url"))]

\* The loop of main over records[i..], with the identifiers seen and the
\* records kept so far.
RECURSIVE CleanFrom(_, _, _, _)
CleanFrom(records, i, seen, cleaned_records) ==
    IF i > Len(records) THEN cleaned_records
    ELSE IF ~IsObj(records[i]) THEN CleanFrom(records, i + 1, seen, cleaned_records)
    ELSE LET cleaned == CleanRecord(records[i].f)
             nid == cleaned.notice_id
         IN  IF nid # <<>> /\ nid \in seen
             THEN CleanFrom(records, i + 1, seen, cleaned_records)
             ELSE CleanFrom(records, i + 1,
                            IF nid # <<>> THEN seen \cup {nid} ELSE seen,
                            Append(cleaned_records, cleaned))

\* What main writes for the records it loaded.
CleanMain(records) == CleanFrom(records, 1, {}, <<>>)

\* The records of an input file: an identifier, the same with spaces around
\* it, another one, the first one in the url only, no identifier and no
\* notice in the url, nothing at all, and an entry that is no object.
InputRecords ==
    {Obj([notice_id |-> <<"a">>, url |-> <<"x", "/", "n", "o", "t", "i", "c", "e", "s", "/", "b", "/">>]),
     Obj([notice_id |-> <<" ", "a", " ">>]),
     Obj([url |-> <<"x", "/", "n", "o", "t", "i", "c", "e", "s", "/", "a", "?", "p">>]),
     Obj([notice_id |-> <<>>, url |-> <<"x", "/", "n", "o", "t", "i", "c", "e", "s", "/">>]),
     Obj([title |-> <<"t">>]),
     Null}

InputFiles ==
    {<<>>} \cup {<<a>> : a \in InputRecords}
           \cup {<<a, b>> : a, b \in InputRecords}
           \cup {<<a, b, c>> : a, b, c \in InputRecords}

\* One run of clean_notices.py.
CleanStep ==
    /\ \E records \in InputFiles :
         resp' = [op |-> "clean", status |-> 0, records |-> records,
                  written |-> CleanMain(records)]
    /\ UNCHANGED <<app, mainVars_but_resp, routesVars>>

NextClean == CleanStep

SpecClean == Init /\ [][NextClean]_vars

\* ------------------------------------------------------------- properties
\* The exceptions of an attempt that mean its response did not parse or did
\* not validate.
ParseFailures == {"JSONDecodeError", "ValidationError", "TypeError"}

\* The exceptions of a POST that did not bring a response: no connection, a
\* timeout, an error status.
TransportFailures == {"ConnectError", "ReadTimeout", "HTTPStatusError"}

\* The same for the generate endpoint of app/llm_service.py.
GenerateFailures == {"ConnectionError", "Timeout", "status_500"}

\* An analysis of main.py that holds every field of the schema, rightly typed.
WellFormedAnalysis(a) ==
    /\ RequiredFields \subseteq DOMAIN a
    /\ IsStr(a.overlap_summary)
    /\ QAFields \subseteq DOMAIN a.qualitative_analysis
    /\ \A k \in QAFields : IsStr(a.qualitative_analysis[k])
    /\ RecommendationFields \subseteq DOMAIN a.recommendation
    /\ \A k \in RecommendationFields : IsStr(a.recommendation[k])
    /\ ValidConfidence(a.confidence)
    /\ IsStr(a.caveats)

\* The analysis is the placeholder main.py builds in its except branch.
IsFallback(a) == "error" \in DOMAIN a

MainAnalyzed == app = "main" /\ resp.op = "analyze" /\ resp.status = 200

\* C1: every analyze call of main.py POSTs to the backend at most twice, the
\* second time if and only if the first response did not parse or validate, and
\* a retry response that validates is returned as the analysis, not replaced by
\* the placeholder.
C1_RetryIffFirstResponseInvalid ==
    MainAnalyzed =>
        /\ resp.calls <= 2
        /\ (resp.calls = 2 <=> resp.first \in ParseFailures)
        /\ (resp.calls = 2 /\ resp.second = "returned" => ~IsFallback(resp.analysis))

\* C1: the response that is JSON but no object: it does not validate, and the
\* call ends after one POST.
C1_InvalidFirstResponseNotRetried ==
    MainAnalyzed /\ resp.first = "TypeError" /\ resp.calls = 1

\* C2: for an existing draft, whatever the backend does, analyze answers 200
\* with an analysis that holds every required field, rightly typed.
C2_AnalyzeAlwaysWellFormed ==
    resp.op = "analyze" /\ resp.status \notin {404, 503} =>
        /\ resp.status = 200
        /\ app = "main" => WellFormedAnalysis(resp.analysis)
        /\ app = "routes" => ValidAnalysisResponse(resp.row)

\* C2: analyze of routes.py ends in an unhandled error.
C2_RoutesAnalyzeFails ==
    app = "routes" /\ resp.op = "analyze" /\ resp.status = 500

\* C3: when the first response and the strict retry's response both fail to
\* parse or validate, analyze still answers with an analysis of the schema's
\* shape: the placeholder, whose caveats are not empty and name the failure.
C3_TwoFailuresGiveFallbackWithCaveats ==
    (/\ app = "main"
     /\ resp.op = "analyze"
     /\ resp.status # 404 /\ resp.status # 503
     /\ resp.first \in ParseFailures
     /\ resp.second \in ParseFailures) =>
        /\ resp.status = 200
        /\ resp.calls = 2
        /\ IsFallback(resp.analysis)
        /\ WellFormedAnalysis(resp.analysis)
        /\ resp.analysis.caveats.s # <<>>
        /\ \E i \in DOMAIN resp.analysis.caveats.s :
             resp.analysis.caveats.s[i] = resp.second

\* C3: both responses failed validation.
C3_BothResponsesInvalid ==
    /\ MainAnalyzed
    /\ resp.first = "ValidationError"
    /\ resp.second = "ValidationError"

\* C4: when a POST to the backend fails with no connection, a timeout or an
\* error status, analyze answers 200 with the fallback analysis, and no strict
\* retry follows the failure: main.py ends with the POST that failed,
\* routes.py with its one POST.
C4_TransportFailureFallsBack ==
    /\ (/\ app = "main"
        /\ resp.op = "analyze"
        /\ resp.status # 404 /\ resp.status # 503
        /\ resp.first \in TransportFailures) =>
           /\ resp.status = 200
           /\ resp.calls = 1
           /\ resp.second = "none"
           /\ resp.analysis = Placeholder(resp.first)
    /\ (/\ app = "main"
        /\ resp.op = "analyze"
        /\ resp.status # 404 /\ resp.status # 503
        /\ resp.second \in TransportFailures) =>
           /\ resp.status = 200
           /\ resp.calls = 2
           /\ resp.analysis = Placeholder(resp.second)
    /\ (/\ app = "routes"
        /\ resp.op = "analyze"
        /\ resp.status # 404
        /\ resp.first \in GenerateFailures) =>
           /\ resp.status = 200
           /\ resp.calls = 1
           /\ resp.source = "generated"
           /\ LET draft == db_drafts[First(FindDraft(db_drafts, resp.draft_id))]
              IN  resp.row = AnalysisRow(SubSeq(db_analyses, 1, resp.row.id - 1),
                      resp.draft_id,
                      MockAnalysis(draft.content,
                          Search(vs_notices, vs_embeddings, draft.content, top_k)))

\* C4: the first POST of main.py found no connection.
C4_FirstCallFoundNoConnection ==
    MainAnalyzed /\ resp.first = "ConnectError"

\* C5: once an analysis is stored for a draft, an analyze request for that
\* draft answers with the stored entry, leaves the store as it is, and POSTs
\* nothing to the backend.
C5_RepeatAnalyzeReturnsStored ==
    [][/\ (/\ app = "main"
           /\ resp'.op = "analyze"
           /\ resp'.status = 200
           /\ resp'.draft_id \in DOMAIN analysis_db) =>
              /\ analysis_db' = analysis_db
              /\ resp'.calls = 0
              /\ resp'.analysis = analysis_db[resp'.draft_id].analysis
       /\ (/\ app = "routes"
           /\ resp'.op = "analyze"
           /\ resp'.status = 200
           /\ ExistingAnalysis(db_analyses, resp'.draft_id) # {}) =>
              /\ db_analyses' = db_analyses
              /\ resp'.calls = 0
              /\ resp'.row =
                   db_analyses[First(ExistingAnalysis(db_analyses, resp'.draft_id))]
      ]_vars

\* C6: in every state, the stored analyses have pairwise different draft ids,
\* each is stored under the id of its own draft, and that draft exists.
C6_OneAnalysisPerExistingDraft ==
    /\ \A d \in DOMAIN analysis_db :
         /\ d \in DOMAIN drafts_db
         /\ analysis_db[d].draft_id = d
    /\ \A i, j \in DOMAIN db_analyses :
         db_analyses[i].draft_id = db_analyses[j].draft_id => i = j
    /\ \A i \in DOMAIN db_analyses :
         FindDraft(db_drafts, db_analyses[i].draft_id) # {}

\* C6: two drafts of routes.py have their analyses stored, and one was asked
\* for again.
C6_TwoDraftsAnalyzedAndRepeated ==
    /\ Len(db_analyses) = 2
    /\ resp.op = "analyze"
    /\ resp.status = 200
    /\ resp.source = "stored"

SimEqual(a, b) == ~SimLess(a, b) /\ ~SimLess(b, a)

\* C7: search returns exactly min(k, number of notices) results, and the
\* TF-IDF retrieval of analyze exactly min(10, number of corpus records); in
\* both the scores never increase along the list.
C7_RetrievalSizeAndOrder ==
    /\ resp.op = "search" =>
         /\ Len(resp.results) = Min(resp.k, Len(vs_notices))
         /\ \A i, j \in DOMAIN resp.results :
              i < j => ~SimLess(resp.results[i].similarity,
                                resp.results[j].similarity)
    /\ MainAnalyzed =>
         /\ Len(resp.retrieved_notices) = Min(top_k, Len(notices_data))
         /\ \A i, j \in DOMAIN resp.retrieved_notices :
              i < j => resp.retrieved_notices[i].similarity_score
                         >= resp.retrieved_notices[j].similarity_score

\* C7: a search asked for more results than there are notices, with notices of
\* different similarity among the results.
C7_SearchBeyondIndexSize ==
    /\ resp.op = "search"
    /\ resp.k > Len(vs_notices)
    /\ Len(resp.results) = Len(vs_notices)
    /\ \E i, j \in DOMAIN resp.results :
         SimLess(resp.results[j].similarity, resp.results[i].similarity)

\* C8: of two results of search with equal similarity, the one that was
\* inserted earlier comes first, also after notices were added.
C8_SearchTiesInInsertionOrder ==
    resp.op = "search" =>
        \A i, j \in DOMAIN resp.results :
            (i < j /\ SimEqual(resp.results[i].similarity,
                               resp.results[j].similarity)) =>
                resp.taken[i] < resp.taken[j]

\* C8: a search after add_notice whose results hold an added notice and a
\* sample notice of equal similarity.
C8_AddedNoticeTiesWithSample ==
    /\ resp.op = "search"
    /\ Len(vs_notices) > Len(sample_notices)
    /\ \E i, j \in DOMAIN resp.results :
         /\ i < j
         /\ resp.taken[i] <= Len(sample_notices)
         /\ resp.taken[j] > Len(sample_notices)
         /\ SimEqual(resp.results[i].similarity, resp.results[j].similarity)

\* The position in the corpus of a retrieved notice.
CorpusIndex(notice) ==
    CHOOSE i \in DOMAIN notices_data : notices_data[i].notice_id = notice.notice_id

\* C9: of two corpus records of equal score, the earlier one comes first in
\* the retrieved list, and the cut to ten keeps the earlier one.
C9_TfidfTiesInCorpusOrder ==
    MainAnalyzed =>
        LET retrieved == resp.retrieved_notices
        IN  /\ \A i, j \in DOMAIN retrieved :
                 (i < j /\ retrieved[i].similarity_score
                             = retrieved[j].similarity_score) =>
                     CorpusIndex(retrieved[i]) < CorpusIndex(retrieved[j])
            /\ \A j \in DOMAIN retrieved :
                 \A a \in DOMAIN notices_data :
                     (/\ a < CorpusIndex(retrieved[j])
                      /\ Similarities(drafts_db[resp.draft_id].title
                                        \cup drafts_db[resp.draft_id].description,
                                      notices_data)[a]
                           = retrieved[j].similarity_score) =>
                         \E i \in DOMAIN retrieved : CorpusIndex(retrieved[i]) = a

\* C9: two retrieved notices of equal score, the later of the corpus first.
C9_LaterRecordFirst ==
    /\ MainAnalyzed
    /\ \E i, j \in DOMAIN resp.retrieved_notices :
         /\ i < j
         /\ resp.retrieved_notices[i].similarity_score
              = resp.retrieved_notices[j].similarity_score
         /\ CorpusIndex(resp.retrieved_notices[i])
              > CorpusIndex(resp.retrieved_notices[j])

\* The response is an object whose rubric lacks one of the four fields: there
\* is no rubric, or it is no object, or it is an object without the field.
LacksRubricField(text) ==
    /\ text.syntax = "json"
    /\ IsObj(text.value)
    /\ \/ "qualitative_analysis" \notin DOMAIN text.value.f
       \/ ~IsObj(text.value.f["qualitative_analysis"])
       \/ ~(QAFields \subseteq DOMAIN text.value.f["qualitative_analysis"].f)

\* The response is an object whose confidence is a number below 0 or above 1.
ConfidenceOutOfRange(text) ==
    /\ text.syntax = "json"
    /\ IsObj(text.value)
    /\ "confidence" \in DOMAIN text.value.f
    /\ IsNum(text.value.f["confidence"])
    /\ (text.value.f["confidence"].v < 0 \/ text.value.f["confidence"].v > 100)

DecisionTags == {"approve", "revise", "reject", "review_required"}

\* C11: every analysis analyze returns, parsed from the backend or built on
\* failure, has a recommendation decision among approve, revise, reject,
\* review_required; a response with another decision string is not accepted
\* by _parse_response.
C11_DecisionInClosedSet ==
    /\ MainAnalyzed =>
          \E d \in DecisionTags : resp.analysis.recommendation.decision = Str(<<d>>)
    /\ (resp.op = "parse" /\ resp.result.tag = "return") =>
          \E d \in DecisionTags : resp.result.value.recommendation.decision = Str(<<d>>)

\* C11: analyze returned, after one call and no failure, an analysis whose
\* decision is none of the four tags.
C11_OtherDecisionReturned ==
    /\ MainAnalyzed
    /\ resp.calls = 1
    /\ ~IsFallback(resp.analysis)
    /\ resp.analysis.recommendation.decision = Str(<<"maybe">>)

\* routes.py answered analyze with an analysis _mock_analysis computed: the
\* service runs in mock mode, or the generate call brought no usable body.
RoutesFellBack ==
    /\ app = "routes"
    /\ resp.op = "analyze"
    /\ resp.status = 200
    /\ resp.source = "generated"
    /\ (resp.calls = 0 \/ resp.first \in GenerateFailures \cup {"body_not_json"})

\* The body holds a caveats or a confidence field.
DegradedSignal(body) == \E k \in {"caveats", "confidence"} : k \in DOMAIN body

\* C12: an analysis analyze returns from the fallback path, be it the
\* placeholder of main.py or the keyword heuristic of app/llm_service.py,
\* carries a caveats or confidence signal that marks it as degraded.
C12_FallbackCarriesSignal ==
    /\ (MainAnalyzed /\ IsFallback(resp.analysis)) =>
          /\ DegradedSignal(resp.analysis)
          /\ resp.analysis.confidence = Num(0)
    /\ RoutesFellBack => DegradedSignal(resp.row)

\* C12: the generate call of routes.py found no connection and analyze answered
\* 200 with the heuristic analysis.
C12_HeuristicAfterConnectionError ==
    /\ RoutesFellBack
    /\ resp.calls = 1
    /\ resp.first = "ConnectionError"

\* A dimension of a heuristic analysis holds a score between 0 and 1, a level
\* and a description.
CompleteDimension(v) ==
    /\ IsObj(v)
    /\ DOMAIN v.f = {"score", "level", "description"}
    /\ IsNum(v.f["score"]) /\ v.f["score"].v \in 0..100
    /\ IsStr(v.f["level"])
    /\ IsStr(v.f["description"])

\* C13: for every draft text, the empty one included, and every similar list,
\* the empty one included, _mock_analysis returns a complete analysis: the
\* four dimensions, each with score, level and description, and a
\* recommendation text; every score lies between 0 and 1.
C13_MockAnalysisComplete ==
    resp.op = "mock" =>
        /\ IsObj(resp.result)
        /\ DOMAIN resp.result.f = AnalysisKeys
        /\ \A k \in DimensionKeys : CompleteDimension(resp.result.f[k])
        /\ IsStr(resp.result.f["recommendation"])

\* C13: _mock_analysis ran on the empty text with an empty similar list.
C13_EmptyTextEmptyList ==
    /\ resp.op = "mock"
    /\ resp.text = <<>>
    /\ resp.similar = <<>>

\* The content of the draft a stored analysis of routes.py belongs to.
AnalyzedContent(row) == db_drafts[First(FindDraft(db_drafts, row.draft_id))].content

SustainabilityFound ==
    {i \in DOMAIN sustainability_keywords :
        Contains(Lower(resp.text), sustainability_keywords[i])}

\* C15: the sustainability score of the heuristic is min(0.3 + 0.2 * m, 1.0)
\* with m the number of sustainability keywords found in the text; a text with
\* sustainable, eco and green and no other sustainability keyword, each found
\* once or three times, scores 0.9 with the level High.
C15_SustainabilityScore ==
    resp.op = "mock" =>
        LET m == Cardinality(SustainabilityFound)
            sustainability == resp.result.f["sustainability"].f
        IN  /\ sustainability["score"] =
                   Num(IF 30 + 20 * m <= 100 THEN 30 + 20 * m ELSE 100)
            /\ resp.text \in {TextSustainableEcoGreen, TextThreeTimes} =>
                   /\ sustainability["score"] = Num(90)
                   /\ sustainability["level"] = Str(<<"High">>)

\* C15: _mock_analysis ran on a text that holds sustainable, eco and green
\* three times each.
C15_ThreeKeywordsThreeTimes ==
    /\ resp.op = "mock"
    /\ resp.text = TextThreeTimes
    /\ Cardinality(SustainabilityFound) = 3

\* The competition score of the analysis in a response of _mock_analysis.
ReportedCompetition(r) == r.result.f["competition"].f["score"].v

\* C16: the competition score of the heuristic is min(0.6 + 0.03 * n, 1.0)
\* with n the number of similar records handed in: 0.6 with the level Medium
\* for none, never above 1.0, and never lower for a longer list than for a
\* shorter one.
C16_CompetitionScore ==
    [][resp'.op = "mock" =>
          LET n == Len(resp'.similar)
          IN  /\ ReportedCompetition(resp') =
                     (IF 60 + 3 * n <= 100 THEN 60 + 3 * n ELSE 100)
              /\ ReportedCompetition(resp') <= 100
              /\ n = 0 =>
                     /\ ReportedCompetition(resp') = 60
                     /\ resp'.result.f["competition"].f["level"] = Str(<<"Medium">>)
              /\ (resp.op = "mock" /\ Len(resp.similar) <= n) =>
                     ReportedCompetition(resp) <= ReportedCompetition(resp')]_vars

\* C16: _mock_analysis ran with so many similar records that the sum passes
\* 1.0.
C16_ManySimilarRecords ==
    /\ resp.op = "mock"
    /\ 60 + 3 * Len(resp.similar) > 100

\* The level word, in lower case, that belongs to a score in hundredths.
LevelWord(s) == IF s >= 75 THEN "high" ELSE IF s >= 50 THEN "medium" ELSE "low"

\* C17: in every analysis of _mock_analysis each dimension's level is High
\* exactly when its score is at least 0.75, Medium exactly when the score is
\* at least 0.5 and below 0.75, and Low otherwise; the level word in the
\* dimension's description is that level, and the recommendation names the
\* levels of competition and innovation.
C17_LevelsFollowScores ==
    resp.op = "mock" =>
        /\ \A k \in DimensionKeys :
             LET dim == resp.result.f[k].f
                 s == dim["score"].v
             IN  /\ dim["level"] = Str(<<"High">>) <=> s >= 75
                 /\ dim["level"] = Str(<<"Medium">>) <=> (s >= 50 /\ s < 75)
                 /\ dim["level"] = Str(<<"Low">>) <=> s < 50
                 /\ dim["description"].s[2] = LevelWord(s)
        /\ resp.result.f["recommendation"].s[2]
               = LevelWord(resp.result.f["competition"].f["score"].v)
        /\ resp.result.f["recommendation"].s[4]
               = LevelWord(resp.result.f["innovation"].f["score"].v)

\* C17: an analysis of _mock_analysis has a score of exactly 0.75, one of
\* exactly 0.5, and a score below 0.5.
C17_ScoresOnTheThresholds ==
    /\ resp.op = "mock"
    /\ resp.result.f["competition"].f["score"].v = 75
    /\ resp.result.f["innovation"].f["score"].v = 50
    /\ resp.result.f["risk"].f["score"].v < 50

\* The response is one block between an opening fence line, with or without
\* a language tag, and a closing fence line.
InCodeBlock(text) ==
    /\ text.syntax = "lines"
    /\ Len(text.lines) >= 3
    /\ text.lines[1].syntax = "fence"
    /\ text.lines[2].syntax \notin {"fence"}
    /\ text.lines[3].syntax = "fence" /\ text.lines[3].tag = ""
    /\ \A i \in 4..Len(text.lines) : text.lines[i].syntax = "blank"

\* C18: a response between an opening fence line, with or without a language
\* tag, and a closing fence line parses to the same analysis, or is rejected
\* with the same error, as the same response without the fence lines.
C18_FencesDoNotMatter ==
    (resp.op = "parse" /\ InCodeBlock(resp.text)) =>
        resp.result = ParseResponse(resp.text.lines[2])

\* C18: a complete analysis came in a code block tagged json, the closing
\* fence indented and followed by a line break, and was parsed.
C18_TaggedBlockParsed ==
    /\ resp.op = "parse"
    /\ InCodeBlock(resp.text)
    /\ resp.text.lines[1].tag = "json"
    /\ resp.text.lines[3].indent > 0
    /\ Len(resp.text.lines) = 4
    /\ resp.result.tag = "return"

\* C19: in every prompt the title, the buyer and the description excerpt of
\* every rendered similar record are at most the fixed maximum length,
\* whatever the caller passed in.
C19_RenderedFieldsBounded ==
    resp.op = "format" =>
        \A i \in DOMAIN resp.context.rendered :
            /\ resp.context.rendered[i].title <= MAX_DESCRIPTION_EXCERPT_LENGTH
            /\ resp.context.rendered[i].buyer <= MAX_DESCRIPTION_EXCERPT_LENGTH
            /\ resp.context.rendered[i].description <= MAX_DESCRIPTION_EXCERPT_LENGTH

\* C19: a notice came with title and excerpt both above the limit; the
\* excerpt was cut to the limit and the title rendered in full.
C19_LongTitleRenderedInFull ==
    /\ resp.op = "format"
    /\ \E i \in DOMAIN resp.notices :
         /\ FreeTextKeys \subseteq DOMAIN resp.notices[i]
         /\ resp.notices[i]["description_excerpt"] > MAX_DESCRIPTION_EXCERPT_LENGTH
         /\ resp.context.rendered[i].description = MAX_DESCRIPTION_EXCERPT_LENGTH
         /\ resp.notices[i]["title"] > MAX_DESCRIPTION_EXCERPT_LENGTH
         /\ resp.context.rendered[i].title = resp.notices[i]["title"]

\* C20: when the TF-IDF index was not fitted at startup, the data file missing
\* or the corpus empty, every analyze request for an existing draft is
\* answered 503, and no request retrieves, calls the backend or writes to the
\* analysis store.
C20_UnfittedIndexRefuses ==
    [][(app = "main" /\ started /\ notices_data = <<>>) =>
          /\ (resp'.op = "analyze" /\ DraftFound(resp'.draft_id)) =>
                 resp'.status = 503
          /\ req' = req
          /\ \A r \in Requests : req[r] = Idle
          /\ analysis_db' = analysis_db]_vars

\* C20: startup fitted no index and analyze was asked for a draft that exists.
C20_AnalyzeWithoutIndex ==
    /\ app = "main"
    /\ started
    /\ notices_data = <<>>
    /\ resp.op = "analyze"
    /\ DraftFound(resp.draft_id)
    /\ resp.status = 503

\* C21: after any sequence of add_notice calls the file holds what the index
\* holds, so that a VectorStore constructed from it has the same notices and
\* embeddings in the same order and answers every search as the saved index
\* does.
C21_SnapshotEqualsIndex ==
    app = "routes" =>
        LET loaded == LoadOrInitialize(notices_file)
        IN  /\ notices_file = Snapshot(vs_notices, vs_embeddings)
            /\ loaded.notices = vs_notices
            /\ loaded.embeddings = vs_embeddings
            /\ loaded.file = notices_file
            /\ \A query \in Queries, k \in TopKs :
                 Search(loaded.notices, loaded.embeddings, query, k)
                     = Search(vs_notices, vs_embeddings, query, k)

\* C21: two notices were added to the seeded index, one after the other.
C21_TwoNoticesAdded ==
    /\ app = "routes"
    /\ Len(vs_notices) = Len(sample_notices) + 2
    /\ Len(notices_file.notices) = Len(sample_notices) + 2

\* C22: a save() that is interrupted leaves the file so that the next
\* constructor loads a complete snapshot, the one before the save or the one
\* after it, never an empty or a truncated file.
C22_LoadSeesCompleteSnapshot ==
    resp.op = "load" =>
        /\ resp.file = NoFile \/ Unpickles(resp.file)
        /\ resp.raised = "none"

\* C22: the process was killed between open and dump, and the constructor of
\* the next process found the file empty.
C22_LoadAfterKillInSave ==
    /\ resp.op = "load"
    /\ resp.file = EmptyFile
    /\ resp.raised = "EOFError"
    /\ vs_pc = NotRunning

\* C23: a search that runs while add_notice is between its statements finds
\* the notices and the embeddings of the same length.
C23_SearchSeesWholeRecords ==
    (resp.op = "search" /\ resp.during \in {"embedded", "listed", "opened"}) =>
        resp.notices = resp.embeddings

\* C23: a search ran between the two appends of add_notice and raised
\* IndexError for the embedding that had no notice yet.
C23_SearchBetweenAppends ==
    /\ resp.op = "search"
    /\ resp.during = "embedded"
    /\ resp.embeddings = resp.notices + 1
    /\ resp.raised = "IndexError"

\* The file is there and cannot be unpickled, or its two lists differ in
\* length.
UnreadableOrInconsistent(file) ==
    /\ file # NoFile
    /\ Unpickles(file) => Len(file.notices) # Len(file.embeddings)

\* C24: a snapshot that is unreadable or inconsistent when the constructor
\* loads it makes the load fail: the index does not go on with an empty or
\* inconsistent corpus, and the file is not replaced by the sample notices.
C24_BadSnapshotFailsLoad ==
    (resp.op = "load" /\ UnreadableOrInconsistent(resp.file)) =>
        /\ resp.raised # "none"
        /\ vs_pc = NotRunning
        /\ notices_file = resp.file

\* C24: the constructor loaded a snapshot with more embeddings than notices
\* and the index holds it.
C24_InconsistentSnapshotLoaded ==
    /\ resp.op = "load"
    /\ resp.file = EmbeddingsLonger
    /\ resp.raised = "none"
    /\ vs_pc = Constructed
    /\ Len(vs_embeddings) > Len(vs_notices)

\* C25: constructed without a file, the index holds exactly the 15 sample
\* notices with one embedding each and the file holds the same; constructed
\* with a file, the index holds exactly what the file holds, the sample
\* notices not added, and the file is left as it was.
C25_ColdStartSeedsOnce ==
    (resp.op = "load" /\ resp.raised = "none") =>
        IF resp.file = NoFile
        THEN /\ vs_notices = sample_notices
             /\ Len(vs_notices) = 15
             /\ Len(vs_embeddings) = 15
             /\ \A i \in DOMAIN vs_notices :
                  vs_embeddings[i] = SimpleEmbedding(vs_notices[i])
             /\ notices_file = Snapshot(vs_notices, vs_embeddings)
        ELSE /\ vs_notices = resp.file.notices
             /\ vs_embeddings = resp.file.embeddings
             /\ notices_file = resp.file

\* C25: the constructor ran with no notices.pkl in place.
C25_ConstructedWithoutFile ==
    /\ resp.op = "load"
    /\ resp.file = NoFile
    /\ vs_pc = Constructed
    /\ notices_file # NoFile

\* C26: an analyze request never changes the index: the indexed records, their
\* vectors and the file are after every step of the request what they were
\* before it, whether the request ends with a generated analysis, with the
\* fallback, with an error, or is abandoned while a POST is in flight.
C26_AnalyzeLeavesIndexAlone ==
    [][(resp'.op \in {"analyze", "abandoned"} \/ req' # req) =>
          UNCHANGED <<vs_notices, vs_embeddings, notices_file, notices_data,
                      tfidf_fitted>>]_vars

\* C26: a request was abandoned while its strict retry was in flight.
C26_AbandonedInRetry ==
    /\ resp.op = "abandoned"
    /\ resp.calls = 2
    /\ tfidf_fitted
    /\ notices_data # <<>>

\* C27: every analyze call of main.py ends: once its first POST is under way
\* it comes, after at most two POSTs, to the response with the parsed analysis
\* or the fallback, and when it has answered none of its POSTs is in flight.
C27_AnalyzeTerminates ==
    (req[1].pc # "idle") ~>
        (/\ req[1].pc = "idle"
         /\ resp.op = "analyze"
         /\ resp.status = 200
         /\ resp.calls \in {1, 2})

\* C27: the strict retry of a request is in flight.
C27_RetryInFlight ==
    /\ app = "main"
    /\ req[1].pc = "call2"
    /\ req[1].calls = 2

\* C28: no two records clean_notices.py writes share their notice_id, the
\* records whose identifier is missing or could not be derived included.
C28_WrittenIdsUnique ==
    resp.op = "clean" =>
        \A i, j \in DOMAIN resp.written :
            i # j => resp.written[i].notice_id # resp.written[j].notice_id

\* C28: of two records with the same identifier the later one was skipped,
\* and two records without identifier were both written.
C28_TwoRecordsWithoutId ==
    /\ resp.op = "clean"
    /\ Len(resp.records) = 3
    /\ Len(resp.written) = 2
    /\ resp.written[1].notice_id = <<>>
    /\ resp.written[2].notice_id = <<>>

\* The analysis a request computed itself, from what its last attempt ended in.
OwnAnalysis(response) ==
    LET ended == IF response.calls = 2 THEN response.second ELSE response.first
    IN  IF ended = "returned"
        THEN Attempt([kind |-> "content", text |-> JsonText(Obj(GoodData(100)))]).value
        ELSE Placeholder(ended)

\* Request r of analyze_draft returns in this step.
Completes(r) ==
    /\ req[r].pc \in {"call1", "call2"}
    /\ req'[r].pc = "idle"
    /\ resp'.op = "analyze"

\* C29: a request of analyze_draft that completes, a request for the same
\* draft being in flight or not, stores the whole pair (retrieved_notices,
\* analysis) it computed itself and returns that pair; the entries of the other
\* drafts stay as they are, and no other step writes analysis_db.  So the entry
\* of a draft is always the pair of one request, never a mixture of two.
C29_CompletionStoresOwnPair ==
    [][/\ \A r \in Requests :
            Completes(r) =>
                LET d == req[r].draft_id
                IN  /\ resp'.draft_id = d
                    /\ resp'.retrieved_notices = req[r].retrieved
                    /\ resp'.analysis = OwnAnalysis(resp')
                    /\ analysis_db' =
                           With(analysis_db, d,
                                [draft_id |-> d,
                                 retrieved_notices |-> resp'.retrieved_notices,
                                 analysis |-> resp'.analysis])
       /\ (\A q \in Requests : ~Completes(q)) => analysis_db' = analysis_db]_vars

\* C29: the first of two overlapping requests for one draft has returned a
\* parsed analysis and stored it, while the second is suspended on its strict
\* retry and will store another pair.
C29_OverlappingRequests ==
    /\ resp.op = "analyze"
    /\ resp.status = 200
    /\ req[1].pc = "idle"
    /\ req[2].pc = "call2"
    /\ req[2].draft_id = resp.draft_id
    /\ resp.draft_id \in DOMAIN analysis_db
    /\ analysis_db[resp.draft_id].analysis = resp.analysis
    /\ IF resp.calls = 2 THEN resp.second = "returned" ELSE resp.first = "returned"

\* C30: get_analysis of main.py answers 404 for a draft no analyze request has
\* stored a result for, and for a draft with a stored result it answers with
\* that result and does not fail.
C30_GetReturnsStoredAnalysis ==
    (app = "main" /\ resp.op = "get") =>
        IF resp.draft_id \in DOMAIN analysis_db
        THEN /\ resp.status = 200
             /\ resp.body = analysis_db[resp.draft_id]
        ELSE resp.status = 404

\* C30: an analyze request has stored its result for the draft and
\* get_analysis for that draft has answered 500.
C30_GetAfterAnalyzeFails ==
    /\ app = "main"
    /\ resp.op = "get"
    /\ resp.draft_id \in DOMAIN analysis_db
    /\ analysis_db[resp.draft_id].draft_id = resp.draft_id
    /\ "analysis" \in DOMAIN analysis_db[resp.draft_id]
    /\ resp.status = 500

\* The words of a text: the longest runs of characters other than the space
\* and the comma.
WordSeparators == {" ", ","}

WordsOf(text) ==
    {SubSeq(text, p[1], p[2]) :
        p \in {q \in (1..Len(text)) \X (1..Len(text)) :
                  /\ q[1] <= q[2]
                  /\ \A k \in q[1]..q[2] : text[k] \notin WordSeparators
                  /\ q[1] = 1 \/ text[q[1] - 1] \in WordSeparators
                  /\ q[2] = Len(text) \/ text[q[2] + 1] \in WordSeparators}}

KeywordSet(keywords) == {keywords[i] : i \in DOMAIN keywords}

\* The text handed to _mock_analysis names sustainability keywords and no
\* keyword of risk or innovation.
OnlySustainabilityKeywords ==
    LET words == WordsOf(Lower(resp.text))
    IN  /\ words \cap KeywordSet(sustainability_keywords) # {}
        /\ words \cap KeywordSet(risk_keywords) = {}
        /\ words \cap KeywordSet(innovation_keywords) = {}

\* C31: a text whose only rubric keywords are sustainability keywords gets
\* the base risk score 0.4 and the base innovation score 0.5 from
\* _mock_analysis.
C31_OtherDimensionsAtBase ==
    (resp.op = "mock" /\ OnlySustainabilityKeywords) =>
        /\ resp.result.f["risk"].f["score"] = Num(40)
        /\ resp.result.f["innovation"].f["score"] = Num(50)

\* C31: _mock_analysis ran on "sustainable eco green" and scored innovation
\* 0.65, "ai" being part of "sustainable".
C31_SustainableCountsAsAi ==
    /\ resp.op = "mock"
    /\ resp.text = TextSustainableEcoGreen
    /\ OnlySustainabilityKeywords
    /\ resp.result.f["risk"].f["score"] = Num(40)
    /\ resp.result.f["innovation"].f["score"] = Num(65)

\* create_draft of main.py returns in this step.
DraftCreated == app = "main" /\ resp'.op = "create"

\* C32: the drafts stored are those with the ids 1 .. next_draft_id - 1, each
\* under its own id; create_draft assigns the id after the largest one
\* assigned so far, an id no draft has, and leaves the drafts and the analyses
\* stored before as they are; no other step changes next_draft_id.
C32_DraftIdsIncrease ==
    [][/\ DOMAIN drafts_db = 1..(next_draft_id - 1)
       /\ \A d \in DOMAIN drafts_db : drafts_db[d].id = d
       /\ DraftCreated =>
              /\ resp'.body.id = next_draft_id
              /\ resp'.body.id \notin DOMAIN drafts_db
              /\ \A d \in DOMAIN drafts_db : d < resp'.body.id
              /\ next_draft_id' = next_draft_id + 1
              /\ DOMAIN drafts_db' = DOMAIN drafts_db \cup {resp'.body.id}
              /\ drafts_db'[resp'.body.id] = resp'.body
              /\ \A d \in DOMAIN drafts_db : drafts_db'[d] = drafts_db[d]
              /\ analysis_db' = analysis_db
       /\ ~DraftCreated => next_draft_id' = next_draft_id]_vars

\* C32: a second draft has been created after the first one was analyzed.
C32_SecondDraftAfterAnalysis ==
    /\ app = "main"
    /\ resp.op = "create"
    /\ resp.body.id = 2
    /\ DOMAIN drafts_db = {1, 2}
    /\ 1 \in DOMAIN analysis_db
    /\ next_draft_id = 3

====
